---- MODULE Spec2Model ----
(***************************************************************************)
(* OmniReadarr download orchestration: the DownloadService of              *)
(* downloaders/services/download.py over the DownloadAttempt /             *)
(* DownloadBlacklist tables and the media status, with the SABnzbd and     *)
(* Prowlarr clients as the environment.                                    *)
(***************************************************************************)
EXTENDS Integers, Sequences, FiniteSets, TLC

\* ---------------------------------------------------------------- bounds
MaxAttempts == 2
\* longest answer of the indexer to one query
MaxHits == 3
\* longest listing an indexer sends when the result cap is in play
MaxListing == 52
\* most runs of one character a file name is made of
MaxRuns == 3

\* ------------------------------------------------------------- constants
Media == {"book1", "book2"}
Procs == {"req1", "req2"}
AttemptIds == 1..MaxAttempts

PENDING == "pending"
SENT == "sent"
DOWNLOADING == "downloading"
DOWNLOADED == "downloaded"
FAILED == "failed"
BLACKLISTED == "blacklisted"

DownloadAttemptStatus == {PENDING, SENT, DOWNLOADING, DOWNLOADED, FAILED, BLACKLISTED}

WANTED == "wanted"
SEARCHING == "searching"
POST_PROCESSED_FAILED == "post_processed_failed"
POST_PROCESSED_SUCCESS == "post_processed_success"
ARCHIVED == "archived"

MediaStatus ==
  {WANTED, SEARCHING, DOWNLOADING, DOWNLOADED, POST_PROCESSED_FAILED,
   POST_PROCESSED_SUCCESS, ARCHIVED}

BlacklistReason == {"manual", "wrong_file"}

ActiveStatuses == {SENT, DOWNLOADING}

\* ------------------------------------------------ strings as token lists
\* A URL or guid is the sequence of its lexical pieces, so that the code's
\* startswith / replace / strip tests are computed, not assumed.
StartsWith(s, p) == Len(s) >= Len(p) /\ SubSeq(s, 1, Len(p)) = p

RECURSIVE Strip(_)
Strip(s) ==
  IF s = <<>> THEN s
  ELSE IF Head(s) = " " THEN Strip(Tail(s))
  ELSE IF s[Len(s)] = " " THEN Strip(SubSeq(s, 1, Len(s) - 1))
  ELSE s

StartsWithHttp(s) == StartsWith(s, <<"http://">>) \/ StartsWith(s, <<"https://">>)

StartsWithLocalhost(s) ==
  StartsWith(s, <<"http://", "localhost">>) \/ StartsWith(s, <<"https://", "localhost">>)

RECURSIVE ReplaceFirst(_, _, _)
ReplaceFirst(s, old, new) ==
  IF s = <<>> THEN s
  ELSE IF Head(s) = old THEN <<new>> \o Tail(s)
  ELSE <<Head(s)>> \o ReplaceFirst(Tail(s), old, new)

UrlEmpty == <<>>
UrlBlank == <<" ">>
UrlInvalid == <<"invalid-url">>
UrlLocalhost == <<"http://", "localhost", ":9696/1/download">>
UrlDirect == <<"https://", "example.com", "/file.nzb">>
Urls == {UrlEmpty, UrlBlank, UrlInvalid, UrlLocalhost, UrlDirect}

GuidPlain == <<"test-guid-123">>
GuidNzbgeek == <<"https://", "nzbgeek.info", "/details", "?guid=", "abc123">>
Guids == {GuidPlain, GuidNzbgeek}

Indexers == {"TestIndexer"}
IndexerIds == {1, 2}
Protocols == {"usenet", "torrent"}

\* str(result.indexer_id)
IntToStr(n) == IF n = 1 THEN "1" ELSE IF n = 2 THEN "2" ELSE "3"

SearchResults ==
  [guid : Guids, indexer : Indexers, indexer_id : IndexerIds,
   protocol : Protocols, download_url : Urls]

\* -------------------------------------------------- environment answers
NzoIds == {"SABnzbd_nzo_abc123"}
ClientError == "SABnzbd error"
\* SABnzbdClient.add_download: a job id, or a SABnzbdClientError
AddDownloadOutcomes == NzoIds \cup {ClientError}

ProwlarrError == <<"ProwlarrClientError">>
\* ProwlarrClient.get_download_url: a location, or a ProwlarrClientError
UrlResolved == <<"https://", "nzbgeek.info", "/api?t=get&id=", "123", "&apikey=abc">>
GetDownloadUrlOutcomes == {UrlResolved, ProwlarrError}

\* A path is the sequence of its components and a component the sequence of
\* its pieces (characters, or a name with its suffix as the last piece), so
\* that join / parent / stem / suffix are computed.
NoPath == <<>>
ReportedPath == <<<<"downloads">>, <<"test">>, <<"file", ".epub">>>>
RemoteStatuses ==
  {"Completed", "Downloading", "Queued", "Paused", "Failed", "Deleted", "Verifying"}
NoJob == [found |-> FALSE]
PollError == [found |-> TRUE, status |-> "poll_error", path |-> NoPath]
\* SABnzbdClient.get_job_status: None, a JobStatus, or an exception
JobStatuses ==
  {NoJob, PollError}
    \cup [found : {TRUE}, status : RemoteStatuses, path : {NoPath, ReportedPath}]

\* What the specification's steps are driven with: one input per branch of
\* the code.  The properties quantify over the full input sets above.
OfferedReleases ==
  {[guid |-> GuidPlain, indexer |-> "TestIndexer", indexer_id |-> 1,
    protocol |-> "usenet", download_url |-> UrlDirect],
   [guid |-> GuidNzbgeek, indexer |-> "TestIndexer", indexer_id |-> 1,
    protocol |-> "usenet", download_url |-> UrlLocalhost],
   [guid |-> GuidPlain, indexer |-> "TestIndexer", indexer_id |-> 1,
    protocol |-> "torrent", download_url |-> UrlDirect],
   [guid |-> GuidPlain, indexer |-> "TestIndexer", indexer_id |-> 2,
    protocol |-> "usenet", download_url |-> UrlInvalid]}

\* (configuration found, get_download_url's answer, add_download's answer)
InitiateEnvs == [cfg : BOOLEAN, pr : GetDownloadUrlOutcomes, sab : AddDownloadOutcomes]

OfferedEnvs ==
  {[cfg |-> TRUE, pr |-> UrlResolved, sab |-> "SABnzbd_nzo_abc123"],
   [cfg |-> TRUE, pr |-> UrlResolved, sab |-> ClientError],
   [cfg |-> FALSE, pr |-> ProwlarrError, sab |-> "SABnzbd_nzo_abc123"]}

PolledAnswers ==
  {NoJob, PollError,
   [found |-> TRUE, status |-> "Completed", path |-> ReportedPath],
   [found |-> TRUE, status |-> "Completed", path |-> NoPath],
   [found |-> TRUE, status |-> "Downloading", path |-> NoPath],
   [found |-> TRUE, status |-> "Failed", path |-> NoPath],
   [found |-> TRUE, status |-> "Verifying", path |-> NoPath]}

\* ----------------------------------------------------------------- state
VARIABLES
  attempts,       \* DownloadAttempt table: id -> row, or NoAttempt
  next_id,        \* next unused attempt id (ids are never reused)
  media_status,   \* Media.status of each media item
  blacklist,      \* DownloadBlacklist table: set of rows
  procs,          \* in-flight requests (interleaved specification only)
  reconciled,     \* attempts reconciled to DOWNLOADED, job Completed ever since
  rejected,       \* (media, indexer, indexer_id) of every attempt blacklisted so far
  search_results, \* what the last search_for_media call returned
  disk,           \* the file system: the regular files and the directories
  library_path,   \* Media.library_path of each media item
  cover_path,     \* Media.cover_path of each media item
  name,           \* the text handed to sanitize_filename
  sanitized,      \* what sanitize_filename returned for it
  lookup,         \* what find_downloaded_file is asked: the tree and the release
  found_path      \* what find_downloaded_file returned for it

\* what post-processing works on
post_vars == <<disk, library_path, cover_path, name, sanitized>>

\* what file discovery works on
disc_vars == <<lookup, found_path>>

vars == <<attempts, next_id, media_status, blacklist, procs, reconciled,
         rejected, search_results, post_vars, disc_vars>>

\* the record store as one value: what a service call reads and returns
Store ==
  [attempts |-> attempts, next_id |-> next_id, media_status |-> media_status,
   blacklist |-> blacklist]

NoAttempt == [status |-> "absent"]

Exists(att, a) == att[a] # NoAttempt

\* DownloadAttempt.objects.create(..., status=PENDING, download_client=config)
NewAttempt(m, r) ==
  [media |-> m,
   indexer |-> r.indexer,
   indexer_id |-> IntToStr(r.indexer_id),
   status |-> PENDING,
   error_type |-> "",
   error_reason |-> "",
   download_client |-> TRUE,
   download_client_download_id |-> "",
   raw_file_path |-> NoPath,
   post_processed_file_path |-> NoPath]

\* DownloadAttempt.objects.filter(media, status__in=statuses).exists()
HasAttemptIn(att, m, statuses) ==
  \E a \in AttemptIds :
    Exists(att, a) /\ att[a].media = m /\ att[a].status \in statuses

\* a request that has not started: program counter, media, release, the
\* attempt it created or polls, its in-memory copy of the row, the client's
\* verdict, the polled answer, and whether the row was gone when it saved
IdleProc ==
  [pc |-> "idle", media |-> "", release |-> <<>>, attempt |-> 0,
   row |-> NoAttempt, accepted |-> FALSE, answer |-> [found |-> FALSE],
   overtaken |-> FALSE]

\* a row entered outside the service (admin form, fixtures): a release that
\* was handed over and is waiting in SENT
SeededAttempt ==
  [media |-> "book1",
   indexer |-> "TestIndexer",
   indexer_id |-> "1",
   status |-> SENT,
   error_type |-> "",
   error_reason |-> "",
   download_client |-> TRUE,
   download_client_download_id |-> "SABnzbd_nzo_abc123",
   raw_file_path |-> NoPath,
   post_processed_file_path |-> NoPath]

\* a row of an earlier installation: downloaded and post-processed, its
\* client configuration deleted since (download_client is SET_NULL)
OrphanedAttempt ==
  [media |-> "book1",
   indexer |-> "TestIndexer",
   indexer_id |-> "1",
   status |-> DOWNLOADED,
   error_type |-> "",
   error_reason |-> "",
   download_client |-> FALSE,
   download_client_download_id |-> "SABnzbd_nzo_abc123",
   raw_file_path |-> ReportedPath,
   post_processed_file_path |-> <<<<"library">>, <<"book", ".epub">>>>]

\* a lookup that has not been made: no downloads folder, no release
NoLookup ==
  [root |-> "missing", files |-> {}, release_title |-> "", download_client_id |-> ""]

NothingLookedUp == lookup = NoLookup /\ found_path = NoPath

\* no file on disk, nothing organized, nothing sanitized
NothingProcessed ==
  /\ NothingLookedUp
  /\ disk = [files |-> {}, dirs |-> {}]
  /\ library_path = [m \in Media |-> NoPath]
  /\ cover_path = [m \in Media |-> NoPath]
  /\ name = <<>>
  /\ sanitized = <<>>

InitEmpty ==
  /\ attempts = [a \in AttemptIds |-> NoAttempt]
  /\ next_id = 1

InitSeeded ==
  /\ attempts = [a \in AttemptIds |-> IF a = 1 THEN SeededAttempt ELSE NoAttempt]
  /\ next_id = 2

InitOrphaned ==
  /\ attempts = [a \in AttemptIds |-> IF a = 1 THEN OrphanedAttempt ELSE NoAttempt]
  /\ next_id = 2

Init ==
  /\ (InitEmpty \/ InitSeeded \/ InitOrphaned)
  /\ media_status = [m \in Media |-> WANTED]
  /\ blacklist = {}
  /\ procs = [p \in Procs |-> IdleProc]
  /\ reconciled = {}
  /\ rejected = {}
  /\ search_results = <<>>
  /\ NothingProcessed

\* ------------------------------------------------- initiate_download
\* value of the "guid" query parameter of a guid that is a URL, "" if none
QueryGuid(g) ==
  IF \E i \in 1..(Len(g) - 1) : g[i] = "?guid="
  THEN g[(CHOOSE i \in 1..(Len(g) - 1) : g[i] = "?guid=") + 1]
  ELSE ""

Netloc(g) == IF Len(g) >= 2 THEN g[2] ELSE ""

\* DownloadService._resolve_download_url; pr is what
\* prowlarr_client.get_download_url answers if it is asked
ResolveDownloadUrl(r, pr) ==
  LET replaced ==
        IF StartsWithLocalhost(r.download_url)
        THEN ReplaceFirst(r.download_url, "localhost", "prowlarr")
        ELSE r.download_url
  IN IF StartsWithHttp(replaced) /\ ~StartsWithLocalhost(replaced)
     THEN [raised |-> FALSE, url |-> replaced, prowlarr_calls |-> 0]
     ELSE IF StartsWithHttp(r.guid)
     THEN IF QueryGuid(r.guid) # "" /\ Netloc(r.guid) = "nzbgeek.info"
          THEN [raised |-> FALSE,
                url |-> <<"https://", "nzbgeek.info", "/api?t=get&id=", QueryGuid(r.guid)>>,
                prowlarr_calls |-> 0]
          ELSE [raised |-> FALSE, url |-> r.guid, prowlarr_calls |-> 0]
     ELSE IF pr # ProwlarrError
     THEN [raised |-> FALSE, url |-> pr, prowlarr_calls |-> 1]
     ELSE IF StartsWithHttp(r.guid)
     THEN [raised |-> FALSE, url |-> r.guid, prowlarr_calls |-> 1]
     ELSE [raised |-> TRUE, url |-> <<>>, prowlarr_calls |-> 1]

SubmitFailure(msg, pcalls, ccalls) ==
  [ok |-> FALSE, error |-> msg, nzo_id |-> "", url |-> <<>>,
   prowlarr_calls |-> pcalls, client_calls |-> ccalls]

NotSubmitted == SubmitFailure("", 0, 0)

\* f"SABnzbd only supports Usenet downloads (protocol: {result.protocol})"
UnsupportedProtocolMsg(protocol) ==
  IF protocol = "torrent"
  THEN "SABnzbd only supports Usenet downloads (protocol: torrent)"
  ELSE "SABnzbd only supports Usenet downloads (protocol: usenet)"

\* variant: the protocol of the result is not looked at
Submit_AnyProtocol(r, pr, sab) ==
  IF r.download_url = <<>> \/ Strip(r.download_url) = <<>>
  THEN SubmitFailure("Download URL is missing from search result", 0, 0)
  ELSE IF ~StartsWithHttp(r.download_url)
  THEN SubmitFailure("Invalid download URL format", 0, 0)
  ELSE LET res == ResolveDownloadUrl(r, pr)
       IN IF res.raised
          THEN SubmitFailure("Cannot determine download URL", res.prowlarr_calls, 0)
          ELSE IF sab = ClientError
          THEN SubmitFailure(ClientError, res.prowlarr_calls, 1)
          ELSE [ok |-> TRUE, error |-> "", nzo_id |-> sab, url |-> res.url,
                prowlarr_calls |-> res.prowlarr_calls, client_calls |-> 1]

\* the try block of initiate_download up to add_download's answer:
\* validation, URL resolution, submission
Submit(r, pr, sab) ==
  IF r.download_url = <<>> \/ Strip(r.download_url) = <<>>
  THEN SubmitFailure("Download URL is missing from search result", 0, 0)
  ELSE IF r.protocol # "usenet"
  THEN SubmitFailure(UnsupportedProtocolMsg(r.protocol), 0, 0)
  ELSE IF ~StartsWithHttp(r.download_url)
  THEN SubmitFailure("Invalid download URL format", 0, 0)
  ELSE LET res == ResolveDownloadUrl(r, pr)
       IN IF res.raised
          THEN SubmitFailure("Cannot determine download URL", res.prowlarr_calls, 0)
          ELSE IF sab = ClientError
          THEN SubmitFailure(ClientError, res.prowlarr_calls, 1)
          ELSE [ok |-> TRUE, error |-> "", nzo_id |-> sab, url |-> res.url,
                prowlarr_calls |-> res.prowlarr_calls, client_calls |-> 1]

\* variant: the row goes to DOWNLOADING and the answer's job id is dropped
Accepted_NoJobId(row, nzo_id) ==
  [row EXCEPT !.status = DOWNLOADING]

\* attempt.status = DOWNLOADING; nzo_id recorded when the answer has one
Accepted(row, nzo_id) ==
  [row EXCEPT !.status = DOWNLOADING,
              !.download_client_download_id =
                 IF nzo_id # "" THEN nzo_id ELSE @]

\* variant: the except branch marks the row FAILED and drops the detail
Rejected_NoDetail(row, msg) ==
  [row EXCEPT !.status = FAILED, !.error_type = "sabnzbd_error"]

\* variant: the except branch records the error and leaves the status
Rejected_StaysPending(row, msg) ==
  [row EXCEPT !.error_type = "sabnzbd_error", !.error_reason = msg]

\* the except branch: FAILED with error kind and detail
Rejected(row, msg) ==
  [row EXCEPT !.status = FAILED,
              !.error_type = "sabnzbd_error",
              !.error_reason = msg]

\* variant: only a WANTED media item is moved to DOWNLOADING
MediaOnAccepted_OnlyFromWanted(ms) == IF ms = WANTED THEN DOWNLOADING ELSE ms

\* media.status = DOWNLOADING after the attempt is saved
MediaOnAccepted(ms) == DOWNLOADING

ActiveExistsMsg == "Media already has an active download"
NoConfigMsg == "No enabled SABnzbd configuration found"

\* variant: the check looks for DOWNLOADING attempts only
ActiveCheck_IgnoresSent(att, m) == HasAttemptIn(att, m, {DOWNLOADING})

\* the existence check on SENT/DOWNLOADING attempts of the media
ActiveCheck(att, m) == HasAttemptIn(att, m, ActiveStatuses)

\* what a call hands back: the store it leaves, "return" or "raise", and
\* what the caller and the remote services saw of it
Outcome(s, outcome, a, error, sub) ==
  [store |-> s, outcome |-> outcome, attempt |-> a, error |-> error,
   messages |-> {}, client_calls |-> sub.client_calls,
   prowlarr_calls |-> sub.prowlarr_calls, url |-> sub.url]

\* DownloadService.initiate_download(media, result) on store s; cfg: an
\* enabled sabnzbd configuration exists; pr, sab: the clients' answers
initiate_download(s, m, r, cfg, pr, sab) ==
  IF ActiveCheck(s.attempts, m)
  THEN Outcome(s, "raise", 0, ActiveExistsMsg, NotSubmitted)
  ELSE IF ~cfg
  THEN Outcome(s, "raise", 0, NoConfigMsg, NotSubmitted)
  ELSE LET a == s.next_id
           sub == Submit(r, pr, sab)
           created == [s EXCEPT !.next_id = a + 1]
       IN IF sub.ok
          THEN Outcome(
                 [created EXCEPT
                    !.attempts[a] = Accepted(NewAttempt(m, r), sub.nzo_id),
                    !.media_status[m] = MediaOnAccepted(@)],
                 "return", a, "", sub)
          ELSE Outcome(
                 [created EXCEPT !.attempts[a] = Rejected(NewAttempt(m, r), sub.error)],
                 "raise", a, sub.error, sub)

\* ------------------------------------------------- get_download_status
NotFoundMsg == "Download attempt not found"

\* variant: only the client reference is looked at
TooEarlyToPoll_ClientOnly(row) == ~row.download_client

\* nothing to poll yet: no client reference, or no job id
TooEarlyToPoll(row) == ~row.download_client \/ row.download_client_download_id = ""

\* variant: a failed poll fails the attempt
PollFailed_MarksFailed(row) ==
  [row EXCEPT !.status = FAILED,
              !.error_type = "status_check_error", !.error_reason = "poll failed"]

\* the poll raised: only the error fields change
PollFailed(row) ==
  [row EXCEPT !.error_type = "status_check_error", !.error_reason = "poll failed"]

\* variant: a missing job fails the attempt whatever its status
JobMissing_AnyStatus(row) ==
  [row EXCEPT !.status = FAILED,
              !.error_type = "not_found",
              !.error_reason = "Download not found in SABnzbd queue or history"]

\* the job is in neither the queue nor the history
JobMissing(row) ==
  IF row.status \in {SENT, DOWNLOADING}
  THEN [row EXCEPT !.status = FAILED,
                   !.error_type = "not_found",
                   !.error_reason = "Download not found in SABnzbd queue or history"]
  ELSE row

\* variant: the Completed branch leaves the error fields as they were
JobCompleted_KeepsError(row, js) ==
  IF row.status # DOWNLOADED
  THEN [row EXCEPT !.status = DOWNLOADED,
                   !.raw_file_path = IF js.path # NoPath THEN js.path ELSE @]
  ELSE row

\* remote status Completed
JobCompleted(row, js) ==
  IF row.status # DOWNLOADED
  THEN [row EXCEPT !.status = DOWNLOADED,
                   !.error_type = "",
                   !.error_reason = "",
                   !.raw_file_path = IF js.path # NoPath THEN js.path ELSE @]
  ELSE row

\* remote status Downloading, Queued or Paused
JobRunning(row) ==
  IF row.status # DOWNLOADING
  THEN [row EXCEPT !.status = DOWNLOADING, !.error_type = "", !.error_reason = ""]
  ELSE row

\* variant: only an attempt still in flight is failed
JobFailed_OnlyActive(row, js) ==
  IF row.status \in {SENT, DOWNLOADING}
  THEN [row EXCEPT !.status = FAILED,
                   !.error_type = "download_failed",
                   !.error_reason = js.status]
  ELSE row

\* remote status Failed or Deleted
JobFailed(row, js) ==
  IF row.status # FAILED
  THEN [row EXCEPT !.status = FAILED,
                   !.error_type = "download_failed",
                   !.error_reason = js.status]
  ELSE row

RunningStatuses == {"Downloading", "Queued", "Paused"}
FailedStatuses == {"Failed", "Deleted"}

\* the row that get_download_status leaves for the polled answer js
Reconcile(row, js) ==
  IF js = PollError THEN PollFailed(row)
  ELSE IF ~js.found THEN JobMissing(row)
  ELSE IF js.status = "Completed" THEN JobCompleted(row, js)
  ELSE IF js.status \in RunningStatuses THEN JobRunning(row)
  ELSE IF js.status \in FailedStatuses THEN JobFailed(row, js)
  ELSE row

\* media.status = DOWNLOADED, inside the "not yet DOWNLOADED" branch
MediaOnCompleted(row, ms) == IF row.status # DOWNLOADED THEN DOWNLOADED ELSE ms

\* media.status = DOWNLOADING, inside the "not yet DOWNLOADING" branch
MediaOnRunning(row, ms) ==
  IF row.status # DOWNLOADING /\ ms # DOWNLOADING THEN DOWNLOADING ELSE ms

\* the media status that get_download_status leaves, given the row it loaded
ReconcileMedia(row, js, ms) ==
  IF js = PollError \/ ~js.found THEN ms
  ELSE IF js.status = "Completed" THEN MediaOnCompleted(row, ms)
  ELSE IF js.status \in RunningStatuses THEN MediaOnRunning(row, ms)
  ELSE ms

Polled == [NotSubmitted EXCEPT !.client_calls = 1]

\* DownloadService.get_download_status(attempt_id) on store s; js: what
\* get_job_status answers if it is asked
get_download_status(s, a, js) ==
  IF ~Exists(s.attempts, a)
  THEN Outcome(s, "raise", a, NotFoundMsg, NotSubmitted)
  ELSE LET row == s.attempts[a]
       IN IF TooEarlyToPoll(row)
          THEN Outcome(s, "return", a, "", NotSubmitted)
          ELSE Outcome(
                 [s EXCEPT !.attempts[a] = Reconcile(row, js),
                           !.media_status[row.media] = ReconcileMedia(row, js, @)],
                 "return", a, "", Polled)

\* ------------------------------------------------- mark_as_blacklisted
BlacklistKey(row) ==
  [media |-> row.media, indexer |-> row.indexer, indexer_id |-> row.indexer_id]

HasEntry(bl, key) ==
  \E e \in bl :
    e.media = key.media /\ e.indexer = key.indexer /\ e.indexer_id = key.indexer_id

\* variant: a plain create, no lookup first
GetOrCreate_AlwaysCreates(bl, key, reason) ==
  bl \cup {[media |-> key.media, indexer |-> key.indexer,
            indexer_id |-> key.indexer_id, reason |-> reason]}

\* DownloadBlacklist.objects.get_or_create(key, defaults={reason})
GetOrCreate(bl, key, reason) ==
  IF HasEntry(bl, key)
  THEN bl
  ELSE bl \cup {[media |-> key.media, indexer |-> key.indexer,
                 indexer_id |-> key.indexer_id, reason |-> reason]}

\* DownloadService.mark_as_blacklisted(attempt_id, reason) on store s
mark_as_blacklisted(s, a, reason) ==
  IF ~Exists(s.attempts, a)
  THEN Outcome(s, "raise", a, NotFoundMsg, NotSubmitted)
  ELSE Outcome(
         [s EXCEPT !.blacklist = GetOrCreate(@, BlacklistKey(s.attempts[a]), reason),
                   !.attempts[a].status = BLACKLISTED],
         "return", a, "", NotSubmitted)

\* ------------------------------------------------- delete_download_attempt
\* delete_job of the client: accepted, refused, or an exception
DeleteJobOutcomes == {"deleted", "refused", "error"}
\* isfile + remove of a recorded path: no such file, removed, or an exception
RemoveOutcomes == {"missing", "removed", "error"}
\* (delete_job, removal of the raw file, removal of the post-processed file)
DeleteEnvs == [dj : DeleteJobOutcomes, rmRaw : RemoveOutcomes, rmPost : RemoveOutcomes]

OfferedDeleteEnvs ==
  {[dj |-> "deleted", rmRaw |-> "removed", rmPost |-> "removed"],
   [dj |-> "refused", rmRaw |-> "missing", rmPost |-> "missing"],
   [dj |-> "error", rmRaw |-> "error", rmPost |-> "error"]}

ResetMsg == "Media status reset to WANTED"

\* the remote job is cancelled only for an active attempt that has one
CancelsJob(row) ==
  row.status \in {SENT, DOWNLOADING}
    /\ row.download_client /\ row.download_client_download_id # ""

CancelMessages(row, dj) ==
  IF CancelsJob(row)
  THEN IF dj = "deleted" THEN {"Download removed from SABnzbd"}
       ELSE IF dj = "refused" THEN {"Warning: Could not remove download from SABnzbd"}
       ELSE {"Warning: Error removing download from SABnzbd"}
  ELSE {}

\* variant: an exception while removing a file is passed over in silence
RemoveMessages_SilentError(path, rm, done, warning) ==
  IF path # NoPath /\ rm = "removed" THEN {done} ELSE {}

RemoveMessages(path, rm, done, warning) ==
  IF path # NoPath
  THEN IF rm = "removed" THEN {done}
       ELSE IF rm = "error" THEN {warning}
       ELSE {}
  ELSE {}

\* variant: only attempts still in flight keep the media status
KeepsMediaStatuses_ActiveOnly == {DOWNLOADING, SENT}

\* the status filter of has_other_downloads
KeepsMediaStatuses == {DOWNLOADED, DOWNLOADING, SENT}

HasOtherDownloads(att, m) == HasAttemptIn(att, m, KeepsMediaStatuses)

\* was_active_download: only a SENT/DOWNLOADING attempt can trigger the reset
WasActiveDownload(row) == row.status \in {SENT, DOWNLOADING}

\* DownloadService.delete_download_attempt(attempt_id) on store s; dj,
\* rmRaw, rmPost: how the job cancellation and the file removals go
delete_download_attempt(s, a, dj, rmRaw, rmPost) ==
  IF ~Exists(s.attempts, a)
  THEN Outcome(s, "raise", a, NotFoundMsg, NotSubmitted)
  ELSE LET row == s.attempts[a]
           remaining == [s.attempts EXCEPT ![a] = NoAttempt]
           reset == WasActiveDownload(row)
                      /\ ~HasOtherDownloads(remaining, row.media)
           msgs == CancelMessages(row, dj)
                     \cup RemoveMessages(row.raw_file_path, rmRaw,
                            "Raw file deleted", "Warning: Could not delete raw file")
                     \cup RemoveMessages(row.post_processed_file_path, rmPost,
                            "Post-processed file deleted",
                            "Warning: Could not delete post-processed file")
                     \cup (IF reset THEN {ResetMsg} ELSE {})
       IN [Outcome(
             [s EXCEPT !.attempts = remaining,
                       !.media_status[row.media] = IF reset THEN WANTED ELSE @],
             "return", a, "",
             [NotSubmitted EXCEPT !.client_calls = IF CancelsJob(row) THEN 1 ELSE 0])
           EXCEPT !.messages = msgs]

\* ------------------------------------------------- search_for_media
\* what the search reads of a SearchResult: guid, title, indexer, indexer_id
Titles == {"Zebra", "apple"}
SearchIndexers == {"TestIndexer", "nzbIndex"}
Hits == [guid : Guids, title : Titles, indexer : SearchIndexers, indexer_id : IndexerIds]

\* ProwlarrClient.search for one query: a list of results, or an exception
SearchFailed == [ok |-> FALSE, results |-> <<>>]
Found(hits) == [ok |-> TRUE, results |-> hits]
Responses ==
  {SearchFailed} \cup {Found(hits) : hits \in UNION {[1..n -> Hits] : n \in 0..MaxHits}}

\* the characters of the names above, as code points
CodePoints(str) ==
  CASE str = "TestIndexer" -> <<84, 101, 115, 116, 73, 110, 100, 101, 120, 101, 114>>
    [] str = "nzbIndex" -> <<110, 122, 98, 73, 110, 100, 101, 120>>
    [] str = "Zebra" -> <<90, 101, 98, 114, 97>>
    [] str = "apple" -> <<97, 112, 112, 108, 101>>
    [] str = "" -> <<>>
    [] str = "downloads" -> <<100, 111, 119, 110, 108, 111, 97, 100, 115>>
    [] str = "job" -> <<106, 111, 98>>
    [] str = "Test.Book" -> <<84, 101, 115, 116, 46, 66, 111, 111, 107>>
    [] str = "Test Book Release.epub" -> <<84, 101, 115, 116, 32, 66, 111, 111, 107, 32, 82, 101, 108, 101, 97, 115, 101, 46, 101, 112, 117, 98>>
    [] str = "file_SABnzbd_nzo_abc123.epub" -> <<102, 105, 108, 101, 95, 83, 65, 66, 110, 122, 98, 100, 95, 110, 122, 111, 95, 97, 98, 99, 49, 50, 51, 46, 101, 112, 117, 98>>
    [] str = "notes.txt" -> <<110, 111, 116, 101, 115, 46, 116, 120, 116>>
    [] str = "SABnzbd_nzo_abc123.mp3" -> <<83, 65, 66, 110, 122, 98, 100, 95, 110, 122, 111, 95, 97, 98, 99, 49, 50, 51, 46, 109, 112, 51>>
    [] str = "test-book-01.MP3" -> <<116, 101, 115, 116, 45, 98, 111, 111, 107, 45, 48, 49, 46, 77, 80, 51>>
    [] str = "part1.mp3" -> <<112, 97, 114, 116, 49, 46, 109, 112, 51>>
    [] str = "cover.jpg" -> <<99, 111, 118, 101, 114, 46, 106, 112, 103>>
    [] str = "Test Book Release" -> <<84, 101, 115, 116, 32, 66, 111, 111, 107, 32, 82, 101, 108, 101, 97, 115, 101>>
    [] str = "Some Title" -> <<83, 111, 109, 101, 32, 84, 105, 116, 108, 101>>
    [] str = "SABnzbd_nzo_abc123" -> <<83, 65, 66, 110, 122, 98, 100, 95, 110, 122, 111, 95, 97, 98, 99, 49, 50, 51>>
    [] str = "the" -> <<116, 104, 101>>
    [] str = "a" -> <<97>>
    [] str = "an" -> <<97, 110>>
    [] str = "and" -> <<97, 110, 100>>
    [] str = "or" -> <<111, 114>>
    [] str = "of" -> <<111, 102>>
    [] str = "in" -> <<105, 110>>
    [] str = "on" -> <<111, 110>>
    [] str = "at" -> <<97, 116>>
    [] str = "to" -> <<116, 111>>
    [] str = "for" -> <<102, 111, 114>>
    [] str = "ch" -> <<99, 104>>
    [] str = "chapter" -> <<99, 104, 97, 112, 116, 101, 114>>
    [] str = "part" -> <<112, 97, 114, 116>>
    [] str = "ep" -> <<101, 112>>
    [] str = "episode" -> <<101, 112, 105, 115, 111, 100, 101>>
    [] str = ".epub" -> <<46, 101, 112, 117, 98>>
    [] str = ".mobi" -> <<46, 109, 111, 98, 105>>
    [] str = ".azw" -> <<46, 97, 122, 119>>
    [] str = ".azw3" -> <<46, 97, 122, 119, 51>>
    [] str = ".pdf" -> <<46, 112, 100, 102>>
    [] str = ".txt" -> <<46, 116, 120, 116>>
    [] str = ".rtf" -> <<46, 114, 116, 102>>
    [] str = ".fb2" -> <<46, 102, 98, 50>>
    [] str = ".lit" -> <<46, 108, 105, 116>>
    [] str = ".mp3" -> <<46, 109, 112, 51>>
    [] str = ".m4a" -> <<46, 109, 52, 97>>
    [] str = ".m4b" -> <<46, 109, 52, 98>>
    [] str = ".flac" -> <<46, 102, 108, 97, 99>>
    [] str = ".ogg" -> <<46, 111, 103, 103>>
    [] str = ".wav" -> <<46, 119, 97, 118>>
    [] str = ".aac" -> <<46, 97, 97, 99>>
    [] str = ".opus" -> <<46, 111, 112, 117, 115>>

\* str.lower(), character by character
LowerChar(c) == IF c >= 65 /\ c <= 90 THEN c + 32 ELSE c
Lower(str) ==
  LET points == CodePoints(str)
  IN [i \in DOMAIN points |-> LowerChar(points[i])]

\* the lower-case spelling of every name that occurs
Lowered == [text \in Titles \cup SearchIndexers |-> Lower(text)]

\* s < t for strings, as Python compares them
RECURSIVE StrLess(_, _)
StrLess(s, t) ==
  IF t = <<>> THEN FALSE
  ELSE IF s = <<>> THEN TRUE
  ELSE IF Head(s) # Head(t) THEN Head(s) < Head(t)
  ELSE StrLess(Tail(s), Tail(t))

\* the titles of the media items
TitleOf(m) == IF m = "book1" THEN <<"Dune">> ELSE <<" ", "Emma", " ">>

\* the authors of the media items
AuthorsOf(m) == IF m = "book1" THEN <<"Frank Herbert">> ELSE <<>>

\* SearchService._build_search_queries
BuildSearchQueries(m) == <<[query |-> Strip(TitleOf(m)), priority |-> 0]>>

TagResults(hits, priority) ==
  [i \in DOMAIN hits |-> [result |-> hits[i], priority |-> priority]]

\* variant: one try block around the whole loop, so a query that raises
\* loses what the other queries returned
AllResults_FailureAborts(queries, answers) ==
  LET collected[i \in 0..Len(queries)] ==
        IF i = 0 THEN <<>>
        ELSE collected[i - 1] \o TagResults(answers[i].results, queries[i].priority)
  IN IF \E i \in DOMAIN queries : ~answers[i].ok
     THEN <<>>
     ELSE collected[Len(queries)]

\* the query loop: the results of each query that did not raise, tagged
\* with the query's priority, in query order
RECURSIVE AllResults(_, _)
AllResults(queries, answers) ==
  IF queries = <<>> THEN <<>>
  ELSE (IF Head(answers).ok
        THEN TagResults(Head(answers).results, Head(queries).priority)
        ELSE <<>>)
       \o AllResults(Tail(queries), Tail(answers))

\* variant: of the results that share a guid the last one is kept
DeduplicateResults_KeepsLast(items) ==
  LET numbered == [i \in DOMAIN items |-> [at |-> i, item |-> items[i]]]
      last == SelectSeq(numbered,
                LAMBDA e : \A j \in (e.at + 1)..Len(items) :
                             items[j].result.guid # e.item.result.guid)
  IN [k \in DOMAIN last |-> last[k].item]

\* SearchService._deduplicate_results: an item is appended when its guid is
\* not in seen_guids, which holds the guids of the items before it
DeduplicateResults(items) ==
  LET numbered == [i \in DOMAIN items |-> [at |-> i, item |-> items[i]]]
      unseen == SelectSeq(numbered,
                  LAMBDA e : \A j \in 1..(e.at - 1) :
                               items[j].result.guid # e.item.result.guid)
  IN [k \in DOMAIN unseen |-> unseen[k].item]

\* variant: indexer_id compared as the integer it is in the result with the
\* string stored in the row: no row ever matches
is_blacklisted_NeverMatches(bl, m, release) == FALSE

\* SearchService.is_blacklisted
is_blacklisted(bl, m, release) ==
  \E e \in bl :
    /\ e.media = m
    /\ e.indexer = release.indexer
    /\ e.indexer_id = IntToStr(release.indexer_id)

\* SearchService._filter_blacklisted
FilterBlacklisted(bl, m, items) ==
  SelectSeq(items, LAMBDA item : ~is_blacklisted(bl, m, item.result))

\* variant: the names compared as they are spelled, upper case first
SortKey_CaseSensitive(item) ==
  [priority |-> item.priority,
   indexer |-> CodePoints(item.result.indexer),
   title |-> CodePoints(item.result.title)]

\* key=lambda x: (x[1], x[0].indexer.lower(), x[0].title.lower())
SortKey(item) ==
  [priority |-> item.priority,
   indexer |-> Lowered[item.result.indexer],
   title |-> Lowered[item.result.title]]

\* k1 < k2 for the key tuples
KeyLess(k1, k2) ==
  \/ k1.priority < k2.priority
  \/ /\ k1.priority = k2.priority
     /\ \/ StrLess(k1.indexer, k2.indexer)
        \/ k1.indexer = k2.indexer /\ StrLess(k1.title, k2.title)

\* the keys in ascending order
RECURSIVE OrderKeys(_)
OrderKeys(keys) ==
  IF keys = {} THEN <<>>
  ELSE LET least == CHOOSE k \in keys : \A l \in keys : ~KeyLess(l, k)
       IN <<least>> \o OrderKeys(keys \ {least})

\* SearchService._sort_results: sorted() is stable, so the results come out
\* key by key in ascending key order, those of one key in the order they
\* had; the priorities are dropped
SortResults(items) ==
  LET ordered == OrderKeys({SortKey(items[i]) : i \in DOMAIN items})
      upto[n \in 0..Len(ordered)] ==
        IF n = 0 THEN <<>>
        ELSE LET key == ordered[n]
             IN upto[n - 1] \o SelectSeq(items, LAMBDA item : SortKey(item) = key)
      sorted == upto[Len(ordered)]
  IN [i \in DOMAIN sorted |-> sorted[i].result]

\* sorted_results[:50]
SearchLimit == 50

\* variant: the sorted list is returned whole
Truncate_Unbounded(results, n) == results

Truncate(results, n) == SubSeq(results, 1, IF Len(results) < n THEN Len(results) ELSE n)

\* SearchService.search_for_media(media) on store s; answers: what
\* prowlarr_client.search gives for each query, in query order
search_for_media(s, m, answers) ==
  LET all_results == AllResults(BuildSearchQueries(m), answers)
      deduplicated == DeduplicateResults(all_results)
      filtered == FilterBlacklisted(s.blacklist, m, deduplicated)
  IN Truncate(SortResults(filtered), SearchLimit)

\* --------------------------------------------------- sanitize_filename
\* A file name is the sequence of its characters.
DefaultMaxLength == 200

InvalidChars == {"<", ">", ":", "\"", "/", "\\", "|", "?", "*"}

\* what \s matches and str.strip() removes
Whitespace == {" ", "\t", "\n"}

Unknown == <<"U", "n", "k", "n", "o", "w", "n">>

\* re.sub(r'[<>:"/\\|?*]', "_", name)
ReplaceInvalid(s) == [i \in DOMAIN s |-> IF s[i] \in InvalidChars THEN "_" ELSE s[i]]

\* re.sub(r"\s+", " ", sanitized): every run of whitespace becomes one space
CollapseWhitespace(s) ==
  LET numbered == [i \in DOMAIN s |-> [at |-> i, c |-> s[i]]]
      kept == SelectSeq(numbered,
                LAMBDA e : ~(e.c \in Whitespace /\ e.at > 1 /\ s[e.at - 1] \in Whitespace))
  IN [k \in DOMAIN kept |-> IF kept[k].c \in Whitespace THEN " " ELSE kept[k].c]

\* str.strip(chars): the characters of chars are dropped at both ends
StripChars(s, chars) ==
  IF \A i \in DOMAIN s : s[i] \in chars THEN <<>>
  ELSE LET first == CHOOSE i \in DOMAIN s :
                      s[i] \notin chars /\ \A j \in 1..(i - 1) : s[j] \in chars
           last == CHOOSE i \in DOMAIN s :
                     s[i] \notin chars /\ \A j \in (i + 1)..Len(s) : s[j] \in chars
       IN SubSeq(s, first, last)

\* str.rstrip(): trailing whitespace is dropped
RStrip(s) ==
  IF \A i \in DOMAIN s : s[i] \in Whitespace THEN <<>>
  ELSE LET last == CHOOSE i \in DOMAIN s :
                     s[i] \notin Whitespace /\ \A j \in (i + 1)..Len(s) : s[j] \in Whitespace
       IN SubSeq(s, 1, last)

\* variant: a long name is kept whole
TruncateName_Whole(s, max_length) == s

\* if len(sanitized) > max_length: sanitized = sanitized[:max_length].rstrip()
TruncateName(s, max_length) ==
  IF Len(s) > max_length THEN RStrip(SubSeq(s, 1, max_length)) ELSE s

\* sanitize_filename(name, max_length)
sanitize_filename(text, max_length) ==
  LET replaced == ReplaceInvalid(text)
      collapsed == CollapseWhitespace(replaced)
      stripped == StripChars(StripChars(collapsed, Whitespace), {"."})
      cut == TruncateName(stripped, max_length)
  IN IF cut = <<>> THEN Unknown ELSE cut

\* ------------------------------------------------------ the file system
LibraryBase == <<<<"library">>>>

Suffixes == {".epub", ".mobi", ".mp3", ".MP3", ".txt", ".opf", ".jpg"}

\* os.path.join(directory, file)
Join(dir, file) == Append(dir, file)

\* Path(p).parent
Parent(p) == SubSeq(p, 1, Len(p) - 1)

\* Path(p).name
BaseName(p) == p[Len(p)]

\* Path(p).suffix of a file name, "" when it has none
Suffix(file) ==
  IF Len(file) > 1 /\ file[Len(file)] \in Suffixes THEN file[Len(file)] ELSE ""

\* Path(p).stem of a file name
Stem(file) == IF Suffix(file) = "" THEN file ELSE SubSeq(file, 1, Len(file) - 1)

\* f"{stem}{ext}"
WithSuffix(stem, ext) == IF ext = "" THEN stem ELSE Append(stem, ext)

\* os.path.exists, os.path.isdir
PathExists(d, p) == p \in d.files \cup d.dirs

IsDir(d, p) == p \in d.dirs

\* os.makedirs(p, exist_ok=True)
MakeDirs(d, p) == [d EXCEPT !.dirs = @ \cup {SubSeq(p, 1, k) : k \in 1..Len(p)}]

\* shutil.copy2(source, dest), open(path, "wb"): the file is there afterwards
WriteFile(d, p) == [d EXCEPT !.files = @ \cup {p}]

\* os.path.samefile on a file system without links
SameFile(p, q) == p = q

\* ------------------------------------------------------- file_organizer
UnknownAuthor == <<"Unknown Author">>

UnknownTitle == <<"Unknown Title">>

\* get_library_path(library_base_path, author, book_title)
get_library_path(base, author, title) ==
  LET sanitized_author ==
        IF author # <<>> THEN sanitize_filename(author, DefaultMaxLength) ELSE UnknownAuthor
      sanitized_title ==
        IF title # <<>> THEN sanitize_filename(title, DefaultMaxLength) ELSE UnknownTitle
  IN [library_dir |-> Join(Join(base, sanitized_author), sanitized_title),
      sanitized_title |-> sanitized_title]

\* what an organizer call gives: the path it returns or the
\* FileOrganizerError it raises, and the file system it leaves
Organized(d, path) == [ok |-> TRUE, path |-> path, error |-> "", disk |-> d]

OrganizerError(d, msg) == [ok |-> FALSE, path |-> NoPath, error |-> msg, disk |-> d]

\* the copy of organize_to_library into the directory named by lib, the
\* result of get_library_path
CopyFile(d, source, lib) ==
  LET made == MakeDirs(d, lib.library_dir)
      dest_path == Join(lib.library_dir,
                        WithSuffix(lib.sanitized_title, Suffix(BaseName(source))))
  IN IF PathExists(made, dest_path) /\ SameFile(source, dest_path)
     THEN Organized(made, dest_path)
     ELSE Organized(WriteFile(made, dest_path), dest_path)

\* organize_to_library(source_file_path, library_base_path, author, book_title)
organize_to_library(d, source, base, author, title) ==
  IF ~PathExists(d, source) THEN OrganizerError(d, "Source file does not exist")
  ELSE IF ~PathExists(d, base) THEN OrganizerError(d, "Library base path does not exist")
  ELSE CopyFile(d, source, get_library_path(base, author, title))

AudioExtensions == {".mp3", ".m4a", ".m4b", ".flac", ".ogg", ".wav", ".aac", ".opus"}

\* file.lower().endswith(ext) for one of the audio extensions
IsAudio(file) ==
  LET ext == Suffix(file)
  IN (IF ext = ".MP3" THEN ".mp3" ELSE ext) \in AudioExtensions

\* os.walk(source_dir_path): the regular files anywhere below the directory
Walk(d, dir) == {f \in d.files : Len(f) > Len(dir) /\ SubSeq(f, 1, Len(dir)) = dir}

\* the loop body: a file already at its destination is passed over
CountsAsCopied(d, source_file, dest_file) ==
  ~(PathExists(d, dest_file) /\ SameFile(source_file, dest_file))

\* the walk of organize_directory_to_library over directory source of file
\* system made, copying into the directory named by lib
CopyAudio(made, source, lib) ==
  LET audio == {f \in Walk(made, source) : IsAudio(BaseName(f))}
      copied == {f \in audio :
                   CountsAsCopied(made, f, Join(lib.library_dir, BaseName(f)))}
      files_copied == Cardinality(copied)
  IN IF files_copied = 0
     THEN OrganizerError(made, "No audio files found in source directory")
     ELSE Organized(
            [made EXCEPT !.files =
               @ \cup {Join(lib.library_dir, BaseName(f)) : f \in copied}],
            lib.library_dir)

\* the part of organize_directory_to_library after its checks
CopyDirectory(d, source, lib) == CopyAudio(MakeDirs(d, lib.library_dir), source, lib)

\* organize_directory_to_library(source_dir_path, library_base_path, author,
\* book_title)
organize_directory_to_library(d, source, base, author, title) ==
  IF ~PathExists(d, source) THEN OrganizerError(d, "Source directory does not exist")
  ELSE IF ~IsDir(d, source) THEN OrganizerError(d, "Source path is not a directory")
  ELSE IF ~PathExists(d, base) THEN OrganizerError(d, "Library base path does not exist")
  ELSE CopyDirectory(d, source, get_library_path(base, author, title))

\* ------------------------------------------ organize_to_library_for_attempt
\* Media.cover_url
CoverUrlOf(m) == IF m = "book1" THEN "https://covers.example.com/dune.jpg" ELSE ""

\* what the stage works on, as one value
PostStore ==
  [attempts |-> attempts, disk |-> disk, library_path |-> library_path,
   cover_path |-> cover_path]

\* what the stage returns, with the store it leaves
\* variant: a failed stage forgets what was organized before
StageFailed_ForgetsLibrary(s, msg) ==
  [store |-> [s EXCEPT !.library_path = [m \in Media |-> NoPath]],
   success |-> FALSE, error |-> msg, organized |-> NoPath]

StageFailed(s, msg) == [store |-> s, success |-> FALSE, error |-> msg, organized |-> NoPath]

StageDone(s, path) == [store |-> s, success |-> TRUE, error |-> "", organized |-> path]

\* what the completed-downloads folder holds: a single e-book, a converted
\* e-book next to its original, an audiobook in a folder with a sub-folder,
\* and a folder without audio
MobiPath == <<<<"downloads">>, <<"test">>, <<"file", ".mobi">>>>

ConvertedPath == <<<<"downloads">>, <<"test">>, <<"converted", ".epub">>>>

AudiobookDir == <<<<"downloads">>, <<"audiobook">>>>

TextDir == <<<<"downloads">>, <<"notes">>>>

\* a path recorded on an attempt whose file has been removed since
MissingPath == <<<<"downloads">>, <<"gone", ".epub">>>>

DownloadedFiles ==
  {ReportedPath, MobiPath, ConvertedPath,
   Join(AudiobookDir, <<"part1", ".mp3">>),
   Join(Join(AudiobookDir, <<"disc2">>), <<"part2", ".MP3">>),
   Join(AudiobookDir, <<"cover", ".jpg">>),
   Join(TextDir, <<"readme", ".txt">>)}

DownloadedDirs ==
  {<<<<"downloads">>>>, <<<<"downloads">>, <<"test">>>>, AudiobookDir,
   Join(AudiobookDir, <<"disc2">>), TextDir}

\* find_downloaded_file: the path it returns, NoPath for a FileDiscoveryError
FoundOutcomes == {NoPath, ReportedPath, AudiobookDir}

\* the environment of one call: an enabled ProcessingConfiguration exists
\* (cfg), what find_downloaded_file gives (found), generate_opf and
\* download_cover return (TRUE) or raise
OrganizeEnvs == [cfg : BOOLEAN, found : FoundOutcomes, opf : BOOLEAN, cover : BOOLEAN]

\* the source to organize: the post-processed file, else the raw file, else
\* the discovered one
UsesPostProcessed(row, d) ==
  row.post_processed_file_path # NoPath /\ PathExists(d, row.post_processed_file_path)

UsesRaw(row, d) == row.raw_file_path # NoPath /\ PathExists(d, row.raw_file_path)

FileToOrganize(row, d, found) ==
  IF UsesPostProcessed(row, d) THEN row.post_processed_file_path
  ELSE IF UsesRaw(row, d) THEN row.raw_file_path
  ELSE found

\* variant: a failed cover download blanks the cover path
CoverPathAfter_BlankOnFailure(previous, cover_url, downloaded, cover_output_path) ==
  IF cover_url # "" THEN (IF downloaded THEN cover_output_path ELSE NoPath) ELSE previous

\* media.cover_path after the stage: written only when a cover was downloaded
CoverPathAfter(previous, cover_url, downloaded, cover_output_path) ==
  IF cover_url # "" /\ downloaded THEN cover_output_path ELSE previous

\* the author handed to the organizer: media.authors[0] or "Unknown Author"
OrganizeAuthor(m) == IF AuthorsOf(m) # <<>> THEN <<AuthorsOf(m)[1]>> ELSE UnknownAuthor

\* the organizer the stage calls for file_to_organize of media m
RunOrganizer(d, file_to_organize, m) ==
  IF IsDir(d, file_to_organize)
  THEN organize_directory_to_library(
         d, file_to_organize, LibraryBase, OrganizeAuthor(m), TitleOf(m))
  ELSE organize_to_library(
         d, file_to_organize, LibraryBase, OrganizeAuthor(m), TitleOf(m))

\* the sidecars written next to library_file_path on file system d
WithSidecars(d, m, e, opf_path, cover_output_path) ==
  LET with_opf == IF e.opf THEN WriteFile(d, opf_path) ELSE d
  IN IF CoverUrlOf(m) # "" /\ e.cover THEN WriteFile(with_opf, cover_output_path)
     ELSE with_opf

\* the end of the stage: sidecars, then the media and the attempt are saved
RecordOrganized(s, a, m, e, d, library_file_path, opf_path, cover_output_path) ==
  StageDone(
    [attempts |-> [s.attempts EXCEPT ![a].post_processed_file_path = library_file_path],
     disk |-> WithSidecars(d, m, e, opf_path, cover_output_path),
     library_path |-> [s.library_path EXCEPT ![m] = library_file_path],
     cover_path |-> [s.cover_path EXCEPT ![m] =
                       CoverPathAfter(@, CoverUrlOf(m), e.cover, cover_output_path)]],
    library_file_path)

\* the stage from the organizer's outcome res on
AfterOrganizer(s, a, m, e, res) ==
  IF ~res.ok THEN StageFailed([s EXCEPT !.disk = res.disk], res.error)
  ELSE RecordOrganized(
         s, a, m, e, res.disk, res.path,
         Join(Parent(res.path), WithSuffix(Stem(BaseName(res.path)), ".opf")),
         Join(Parent(res.path), WithSuffix(Stem(BaseName(res.path)), ".jpg")))

\* the stage once file_to_organize is known; a discovered file is recorded
\* as the attempt's raw file
OrganizeFile(s, a, e, discovered, file_to_organize) ==
  AfterOrganizer(
    [s EXCEPT !.attempts[a].raw_file_path = IF discovered THEN file_to_organize ELSE @],
    a, s.attempts[a].media, e,
    RunOrganizer(s.disk, file_to_organize, s.attempts[a].media))

\* organize_to_library_for_attempt(attempt_id) on store s in environment e
organize_to_library_for_attempt(s, a, e) ==
  IF ~Exists(s.attempts, a) THEN StageFailed(s, "Download attempt not found")
  ELSE IF ~e.cfg THEN StageFailed(s, "No enabled processing configuration found")
  ELSE IF ~UsesPostProcessed(s.attempts[a], s.disk) /\ ~UsesRaw(s.attempts[a], s.disk)
  THEN IF e.found = NoPath THEN StageFailed(s, "FileDiscoveryError")
       ELSE OrganizeFile(s, a, e, TRUE, e.found)
  ELSE OrganizeFile(s, a, e, FALSE, FileToOrganize(s.attempts[a], s.disk, e.found))

\* ------------------------------------------------- find_downloaded_file
\* File and directory names are strings; the function reads them character
\* by character (code points), lower-cased.
DownloadsRoot == <<"downloads">>

EbookExtensions ==
  {".epub", ".mobi", ".azw", ".azw3", ".pdf", ".txt", ".rtf", ".fb2", ".lit"}

DiscoveryAudioExtensions ==
  {".mp3", ".m4a", ".m4b", ".flac", ".ogg", ".wav", ".aac", ".opus"}

TitleStopWords ==
  {"the", "a", "an", "and", "or", "of", "in", "on", "at", "to", "for"}

NameStopWords ==
  {"ch", "chapter", "part", "ep", "episode", "the", "a", "an", "and", "or", "of"}

\* str.split() separators, and the characters replaced by a space first
Blank == {9, 10, 11, 12, 13, 32}
WordBreaks == Blank \cup {45, 46, 95}

\* needle in hay
Contains(hay, needle) ==
  \E i \in 0..(Len(hay) - Len(needle)) : SubSeq(hay, i + 1, i + Len(needle)) = needle

\* text.endswith(ext) for one of the extensions
EndsWithAny(text, extensions) ==
  \E ext \in extensions :
    LET e == CodePoints(ext)
    IN Len(text) >= Len(e) /\ SubSeq(text, Len(text) - Len(e) + 1, Len(text)) = e

\* text.split(): the maximal runs of characters outside seps, in order
Split(text, seps) ==
  LET starts == {i \in DOMAIN text : text[i] \notin seps /\ (i = 1 \/ text[i - 1] \in seps)}
      EndOf(i) == CHOOSE j \in i..Len(text) :
                    /\ \A k \in i..j : text[k] \notin seps
                    /\ j = Len(text) \/ text[j + 1] \in seps
      Nth(k) == CHOOSE i \in starts : Cardinality({j \in starts : j < i}) = k - 1
  IN [k \in 1..Cardinality(starts) |-> SubSeq(text, Nth(k), EndOf(Nth(k)))]

\* word.isdigit()
IsDigit(word) == word # <<>> /\ \A i \in DOMAIN word : word[i] \in 48..57

\* the filter of both word lists: no stop word, no number, longer than 2
KeptWords(words, stop_words) ==
  LET stops == {CodePoints(w) : w \in stop_words}
      Kept(w) == w \notin stops /\ ~IsDigit(w) /\ Len(w) > 2
  IN SelectSeq(words, Kept)

\* release_title_words_filtered
TitleWords(title_lower) == KeptWords(Split(title_lower, Blank), TitleStopWords)

\* file_words_filtered, root_words_filtered
NameWords(name_lower) == KeptWords(Split(name_lower, WordBreaks), NameStopWords)

\* sum(1 for word in release_title_words_filtered[:5] if word in words)
WordMatches(title_words, words) ==
  Cardinality({k \in DOMAIN title_words :
                 k <= 5 /\ \E j \in DOMAIN words : words[j] = title_words[k]})

\* the two-word overlap test, on a file name or on a directory name
Overlaps(title_words, words) ==
  Len(title_words) >= 2 /\ Len(words) >= 2 /\ WordMatches(title_words, words) >= 2

\* lines 122-171: an audio file that counts as matching the release title
MatchesAudio(file_lower, title_lower) ==
  LET title_words == TitleWords(title_lower)
  IN \/ Contains(file_lower, title_lower)
     \/ Overlaps(title_words, NameWords(file_lower))
     \/ \E k \in DOMAIN title_words :
          k <= 3 /\ Len(title_words[k]) > 3 /\ Contains(file_lower, title_words[k])

Hit(path) == [hit |-> TRUE, path |-> path, audio |-> 0]
Miss(audio_count) == [hit |-> FALSE, path |-> NoPath, audio |-> audio_count]

\* the body of the os.walk loop for directory root whose files are listed
\* in the order files: a path to return, or the number of audio files seen
VisitDirectory(root, files, title, id) ==
  LET lower == [i \in DOMAIN files |-> Lower(files[i])]
      title_lower == Lower(title)
      id_lower == Lower(id)
      ebooks == {i \in DOMAIN files : EndsWithAny(lower[i], EbookExtensions)}
      audio == {i \in DOMAIN files :
                  i \notin ebooks /\ EndsWithAny(lower[i], DiscoveryAudioExtensions)}
      First(S) == CHOOSE i \in S : \A j \in S : i <= j
      id_ebooks == {i \in ebooks : Contains(lower[i], id_lower)}
      id_audio == {i \in audio : Contains(lower[i], id_lower)}
      title_ebooks == {i \in ebooks : Contains(lower[i], title_lower)}
  IN IF id # "" /\ id_ebooks # {} THEN Hit(Append(root, files[First(id_ebooks)]))
     ELSE IF id # "" /\ id_audio # {} THEN Hit(root)
     ELSE IF title_ebooks # {} THEN Hit(Append(root, files[First(title_ebooks)]))
     ELSE IF audio = {} THEN Miss(0)
     ELSE IF \E i \in audio : MatchesAudio(lower[i], title_lower) THEN Hit(root)
     ELSE IF Overlaps(TitleWords(title_lower), NameWords(Lower(root[Len(root)])))
     THEN Hit(root)
     ELSE Miss(Cardinality(audio))

\* the directories os.walk visits below (and including) the root
Directories(files) ==
  {DownloadsRoot} \cup UNION {{SubSeq(p, 1, k) : k \in 1..(Len(p) - 1)} : p \in files}

\* every listing of a finite set
Orderings(S) ==
  {order \in [1..Cardinality(S) -> S] : \A x \in S : \E i \in DOMAIN order : order[i] = x}

\* os.walk(top): top-down, a directory before what is below it and all of
\* that before its next sibling; the order of siblings is the file system's
WalkOrders(files) ==
  LET Below(d, e) == Len(e) >= Len(d) /\ SubSeq(e, 1, Len(d)) = d
  IN {order \in Orderings(Directories(files)) :
        \A i \in DOMAIN order, j \in DOMAIN order :
          (i # j /\ Below(order[i], order[j])) =>
            i < j /\ \A k \in i..j : Below(order[i], order[k])}

\* the file names of directory root in the order the file system lists them
Listing(file_order, root) ==
  LET here == SelectSeq(file_order, LAMBDA p : SubSeq(p, 1, Len(p) - 1) = root)
  IN [i \in DOMAIN here |-> here[i][Len(here[i])]]

\* find_downloaded_file(completed_downloads_path, release_title,
\* download_client_id) on the tree of lookup lk, walked in dir_order with
\* the files listed in file_order; NoPath stands for FileDiscoveryError
find_downloaded_file(lk, dir_order, file_order) ==
  IF lk.root # "dir" THEN NoPath
  ELSE LET visits == [k \in DOMAIN dir_order |->
                        VisitDirectory(dir_order[k], Listing(file_order, dir_order[k]),
                                       lk.release_title, lk.download_client_id)]
           hits == {k \in DOMAIN visits : visits[k].hit}
           audio_dirs == {k \in DOMAIN visits : visits[k].audio >= 1}
       IN IF hits # {}
          THEN visits[CHOOSE k \in hits : \A j \in hits : k <= j].path
          ELSE IF audio_dirs # {}
          THEN dir_order[CHOOSE k \in audio_dirs :
                           \A j \in audio_dirs :
                             \/ visits[j].audio < visits[k].audio
                             \/ visits[j].audio = visits[k].audio /\ k <= j]
          ELSE NoPath

\* ------------------------------- delete_download_attempt on the file system
\* os.path.isfile
IsFile(d, p) == p \in d.files

\* what isfile + remove of the recorded path p can come to on file system d
RemovalsOn(d, p) ==
  IF p # NoPath /\ IsFile(d, p) THEN {"removed", "error"} ELSE {"missing"}

\* os.remove(p), when it went through
RemoveFile(d, p, rm) == IF rm = "removed" THEN [d EXCEPT !.files = @ \ {p}] ELSE d

\* the file system after the two removals of delete_download_attempt
DiskAfterDelete(d, row, rmRaw, rmPost) ==
  RemoveFile(RemoveFile(d, row.raw_file_path, rmRaw), row.post_processed_file_path, rmPost)

\* the removal outcomes that file system d allows for the row
CanRemove(d, row, rmRaw, rmPost) ==
  /\ rmRaw \in RemovalsOn(d, row.raw_file_path)
  /\ rmPost \in RemovalsOn(RemoveFile(d, row.raw_file_path, rmRaw),
                           row.post_processed_file_path)

\* ------------------------------------------------- the service, call by call
\* ids are handed out up to MaxAttempts
CanCreate == next_id <= MaxAttempts

\* a call's store becomes the state
Commit(res) ==
  /\ attempts' = res.store.attempts
  /\ next_id' = res.store.next_id
  /\ media_status' = res.store.media_status
  /\ blacklist' = res.store.blacklist

InitiateDownload(m, r, cfg, pr, sab) ==
  /\ ActiveCheck(attempts, m) \/ ~cfg \/ CanCreate
  /\ Commit(initiate_download(Store, m, r, cfg, pr, sab))
  /\ UNCHANGED <<procs, reconciled, rejected, search_results, post_vars, disc_vars>>

\* reconciled: the attempts that get_download_status moved to DOWNLOADED and
\* whose job has been reported Completed by every answered poll since
GetDownloadStatus(a, js) ==
  /\ Commit(get_download_status(Store, a, js))
  /\ reconciled' =
       IF ~Exists(attempts, a) \/ TooEarlyToPoll(attempts[a]) \/ js = PollError
       THEN reconciled
       ELSE IF js.found /\ js.status = "Completed"
       THEN reconciled \cup {a}
       ELSE reconciled \ {a}
  /\ UNCHANGED <<procs, rejected, search_results, post_vars, disc_vars>>

MarkAsBlacklisted(a, reason) ==
  /\ Commit(mark_as_blacklisted(Store, a, reason))
  /\ rejected' =
       IF Exists(attempts, a) THEN rejected \cup {BlacklistKey(attempts[a])} ELSE rejected
  /\ UNCHANGED <<procs, reconciled, search_results, post_vars, disc_vars>>

DeleteDownloadAttempt(a, dj, rmRaw, rmPost) ==
  /\ Commit(delete_download_attempt(Store, a, dj, rmRaw, rmPost))
  /\ reconciled' = reconciled \ {a}
  /\ UNCHANGED <<procs, rejected, search_results, post_vars, disc_vars>>

SearchForMedia(m, answer) ==
  /\ search_results' = search_for_media(Store, m, <<answer>>)
  /\ UNCHANGED <<attempts, next_id, media_status, blacklist, procs, reconciled, rejected,
                 post_vars, disc_vars>>

Next ==
  \/ \E m \in Media, r \in OfferedReleases, e \in OfferedEnvs :
       InitiateDownload(m, r, e.cfg, e.pr, e.sab)
  \/ \E a \in AttemptIds, js \in PolledAnswers : GetDownloadStatus(a, js)
  \/ \E a \in AttemptIds : MarkAsBlacklisted(a, "manual")
  \/ \E a \in AttemptIds, e \in OfferedDeleteEnvs :
       DeleteDownloadAttempt(a, e.dj, e.rmRaw, e.rmPost)

Spec == Init /\ [][Next]_vars

\* the service started on an empty attempt table
InitFresh ==
  /\ InitEmpty
  /\ media_status = [m \in Media |-> WANTED]
  /\ blacklist = {}
  /\ procs = [p \in Procs |-> IdleProc]
  /\ reconciled = {}
  /\ rejected = {}
  /\ search_results = <<>>
  /\ NothingProcessed

SpecFresh == InitFresh /\ [][Next]_vars

\* searching, grabbing and blacklisting: what the indexer answers with
\* three results, the third a second listing of the first one's guid
DuplicatedListing ==
  Found(<<[guid |-> GuidPlain, title |-> "Zebra", indexer |-> "TestIndexer", indexer_id |-> 1],
          [guid |-> GuidNzbgeek, title |-> "apple", indexer |-> "nzbIndex", indexer_id |-> 2],
          [guid |-> GuidPlain, title |-> "apple", indexer |-> "nzbIndex", indexer_id |-> 2]>>)

OfferedResponses ==
  {SearchFailed,
   Found(<<[guid |-> GuidPlain, title |-> "apple", indexer |-> "TestIndexer", indexer_id |-> 1]>>),
   DuplicatedListing}

\* the releases grabbed from a result list
GrabbedReleases ==
  {[guid |-> GuidPlain, indexer |-> "TestIndexer", indexer_id |-> i,
    protocol |-> "usenet", download_url |-> UrlDirect] : i \in IndexerIds}

NextSearch ==
  \/ \E m \in Media, answer \in OfferedResponses : SearchForMedia(m, answer)
  \/ \E m \in Media, r \in GrabbedReleases :
       InitiateDownload(m, r, TRUE, UrlResolved, "SABnzbd_nzo_abc123")
  \/ \E a \in AttemptIds : MarkAsBlacklisted(a, "manual")

SpecSearch == InitFresh /\ [][NextSearch]_vars

\* searching when the indexer has much to offer: a listing of n results from
\* two indexers, each with a guid of its own unless the last one is a second
\* listing of the first
LongListing(n, repeated) ==
  Found([i \in 1..n |->
           [guid |-> <<"guid-", IF repeated /\ i = n THEN 1 ELSE i>>,
            title |-> IF i % 2 = 0 THEN "Zebra" ELSE "apple",
            indexer |-> IF i % 3 = 0 THEN "TestIndexer" ELSE "nzbIndex",
            indexer_id |-> IF i % 3 = 0 THEN 1 ELSE 2]])

ListingSizes == (SearchLimit - 1)..MaxListing

LongListings == {LongListing(n, repeated) : n \in ListingSizes, repeated \in BOOLEAN}

NextCap ==
  \/ \E m \in Media, answer \in LongListings : SearchForMedia(m, answer)
  \/ \E m \in Media, r \in GrabbedReleases :
       InitiateDownload(m, r, TRUE, UrlResolved, "SABnzbd_nzo_abc123")
  \/ \E a \in AttemptIds : MarkAsBlacklisted(a, "manual")

SpecCap == InitFresh /\ [][NextCap]_vars

\* sanitizing one file name: the names are made of up to MaxRuns runs of
\* one character, each run short or just under or just over the limit
NameChars == {"a", " ", ".", "/"}

RunLengths == {1, DefaultMaxLength - 1, DefaultMaxLength + 1}

RunLists == UNION {[1..n -> [c : NameChars, len : RunLengths]] : n \in 1..MaxRuns}

\* the characters of the runs, one run after the other
Spell(runs) ==
  LET ends[k \in 0..Len(runs)] == IF k = 0 THEN 0 ELSE ends[k - 1] + runs[k].len
  IN [i \in 1..ends[Len(runs)] |->
        runs[CHOOSE k \in DOMAIN runs : ends[k - 1] < i /\ i <= ends[k]].c]

Names == {Spell(runs) : runs \in RunLists}

InitSanitize ==
  /\ InitEmpty
  /\ media_status = [m \in Media |-> WANTED]
  /\ blacklist = {}
  /\ procs = [p \in Procs |-> IdleProc]
  /\ reconciled = {}
  /\ rejected = {}
  /\ search_results = <<>>
  /\ disk = [files |-> {}, dirs |-> {}]
  /\ library_path = [m \in Media |-> NoPath]
  /\ cover_path = [m \in Media |-> NoPath]
  /\ name \in Names
  /\ sanitized = <<>>
  /\ NothingLookedUp

SanitizeFilename ==
  /\ sanitized' = sanitize_filename(name, DefaultMaxLength)
  /\ UNCHANGED <<attempts, next_id, media_status, blacklist, procs, reconciled, rejected,
                 search_results, disk, library_path, cover_path, name, disc_vars>>

NextSanitize == SanitizeFilename

SpecSanitize == InitSanitize /\ [][NextSanitize]_vars

\* post-processing: attempts whose download is complete, the downloaded
\* files on disk, the library folder there or not, a cover from an earlier
\* run recorded or not
RecordedPaths ==
  {[raw |-> NoPath, post |-> NoPath],
   [raw |-> ReportedPath, post |-> NoPath],
   [raw |-> MobiPath, post |-> ConvertedPath],
   [raw |-> AudiobookDir, post |-> NoPath],
   [raw |-> TextDir, post |-> NoPath],
   [raw |-> MissingPath, post |-> NoPath]}

DownloadedAttempt(m, paths) ==
  [media |-> m,
   indexer |-> "TestIndexer",
   indexer_id |-> "1",
   status |-> DOWNLOADED,
   error_type |-> "",
   error_reason |-> "",
   download_client |-> TRUE,
   download_client_download_id |-> "SABnzbd_nzo_abc123",
   raw_file_path |-> paths.raw,
   post_processed_file_path |-> paths.post]

DownloadedAttempts == {DownloadedAttempt(m, paths) : m \in Media, paths \in RecordedPaths}

OldCover == <<<<"covers">>, <<"old", ".jpg">>>>

InitOrganize ==
  /\ attempts \in [AttemptIds -> DownloadedAttempts \cup {NoAttempt}]
  /\ \A a \in AttemptIds : Exists(attempts, a) => \A b \in 1..(a - 1) : Exists(attempts, b)
  /\ Exists(attempts, 1)
  /\ next_id = 1 + Cardinality({a \in AttemptIds : Exists(attempts, a)})
  /\ media_status = [m \in Media |-> DOWNLOADED]
  /\ blacklist = {}
  /\ procs = [p \in Procs |-> IdleProc]
  /\ reconciled = {}
  /\ rejected = {}
  /\ search_results = <<>>
  /\ \E library \in SUBSET {LibraryBase} :
       disk = [files |-> DownloadedFiles, dirs |-> DownloadedDirs \cup library]
  /\ library_path = [m \in Media |-> NoPath]
  /\ \E cover \in {NoPath, OldCover} : cover_path = [m \in Media |-> cover]
  /\ name = <<>>
  /\ sanitized = <<>>
  /\ NothingLookedUp

OfferedOrganizeEnvs ==
  {[cfg |-> TRUE, found |-> ReportedPath, opf |-> TRUE, cover |-> TRUE],
   [cfg |-> TRUE, found |-> AudiobookDir, opf |-> TRUE, cover |-> FALSE],
   [cfg |-> TRUE, found |-> NoPath, opf |-> FALSE, cover |-> TRUE],
   [cfg |-> FALSE, found |-> NoPath, opf |-> FALSE, cover |-> FALSE]}

OrganizeToLibrary(a, e) ==
  /\ LET res == organize_to_library_for_attempt(PostStore, a, e)
     IN /\ attempts' = res.store.attempts
        /\ disk' = res.store.disk
        /\ library_path' = res.store.library_path
        /\ cover_path' = res.store.cover_path
  /\ UNCHANGED <<next_id, media_status, blacklist, procs, reconciled, rejected,
                 search_results, name, sanitized, disc_vars>>

NextOrganize == \E a \in AttemptIds, e \in OfferedOrganizeEnvs : OrganizeToLibrary(a, e)

SpecOrganize == InitOrganize /\ [][NextOrganize]_vars


\* delete_download_attempt with its removals carried out on the disk;
\* Media.library_path and Media.cover_path are not written
DeleteOrganized(a, dj, rmRaw, rmPost) ==
  /\ Exists(attempts, a)
  /\ CanRemove(disk, attempts[a], rmRaw, rmPost)
  /\ Commit(delete_download_attempt(Store, a, dj, rmRaw, rmPost))
  /\ disk' = DiskAfterDelete(disk, attempts[a], rmRaw, rmPost)
  /\ UNCHANGED <<procs, reconciled, rejected, search_results, library_path, cover_path,
                 name, sanitized, disc_vars>>

NextLibrary ==
  \/ \E a \in AttemptIds, e \in OfferedOrganizeEnvs : OrganizeToLibrary(a, e)
  \/ \E a \in AttemptIds, e \in DeleteEnvs : DeleteOrganized(a, e.dj, e.rmRaw, e.rmPost)

SpecLibrary == InitOrganize /\ [][NextLibrary]_vars

\* ------------------------------------------------- file discovery, call by call
MaxFiles == 3

JobDir == <<"downloads", "job">>
TitleDir == <<"downloads", "Test.Book">>

\* where the files of a downloads folder may lie
DiscoveryCandidates ==
  {Append(DownloadsRoot, "Test Book Release.epub"),
   Append(TitleDir, "Test Book Release.epub"),
   Append(DownloadsRoot, "file_SABnzbd_nzo_abc123.epub"),
   Append(JobDir, "file_SABnzbd_nzo_abc123.epub"),
   Append(JobDir, "SABnzbd_nzo_abc123.mp3"),
   Append(JobDir, "test-book-01.MP3"),
   Append(JobDir, "part1.mp3"),
   Append(TitleDir, "part1.mp3"),
   Append(DownloadsRoot, "notes.txt"),
   Append(JobDir, "cover.jpg")}

ReleaseTitles == {"Test Book Release", "Some Title"}

Lookups ==
  [root : {"dir"},
   files : {files \in SUBSET DiscoveryCandidates : Cardinality(files) <= MaxFiles},
   release_title : ReleaseTitles,
   download_client_id : NzoIds \cup {""}]
    \cup [root : {"missing", "file"}, files : {{}},
          release_title : ReleaseTitles, download_client_id : NzoIds]

InitDiscovery ==
  /\ InitEmpty
  /\ media_status = [m \in Media |-> WANTED]
  /\ blacklist = {}
  /\ procs = [p \in Procs |-> IdleProc]
  /\ reconciled = {}
  /\ rejected = {}
  /\ search_results = <<>>
  /\ disk = [files |-> {}, dirs |-> {}]
  /\ library_path = [m \in Media |-> NoPath]
  /\ cover_path = [m \in Media |-> NoPath]
  /\ name = <<>>
  /\ sanitized = <<>>
  /\ lookup \in Lookups
  /\ found_path = NoPath

FindDownloadedFile(dir_order, file_order) ==
  /\ found_path' = find_downloaded_file(lookup, dir_order, file_order)
  /\ UNCHANGED <<attempts, next_id, media_status, blacklist, procs, reconciled, rejected,
                 search_results, post_vars, lookup>>

NextDiscovery ==
  \E dir_order \in WalkOrders(lookup.files), file_order \in Orderings(lookup.files) :
    FindDownloadedFile(dir_order, file_order)

SpecDiscovery == InitDiscovery /\ [][NextDiscovery]_vars

\* ------------------------------------------------- interleaved requests
\* initiate_download statement by statement, for requests served at the
\* same time: each step is one database access or one remote call.

\* variant: a unique constraint allows one SENT/DOWNLOADING row per media
StoreAccepts_OneActivePerMedia(att, a, row) ==
  ~(/\ row.status \in ActiveStatuses
    /\ \E b \in AttemptIds :
         /\ b # a
         /\ Exists(att, b)
         /\ att[b].media = row.media
         /\ att[b].status \in ActiveStatuses)

\* DownloadAttempt.Meta declares indexes and no constraint: the table takes
\* any row
StoreAccepts(att, a, row) == TRUE

\* lines 48-73: the existence check and the configuration lookup
RaceCheck(p, m, r, cfg) ==
  /\ procs[p].pc = "idle"
  /\ procs' =
       [procs EXCEPT ![p] =
          IF ActiveCheck(attempts, m) \/ ~cfg
          THEN [@ EXCEPT !.pc = "raised", !.media = m, !.release = r]
          ELSE [@ EXCEPT !.pc = "checked", !.media = m, !.release = r]]
  /\ UNCHANGED <<attempts, next_id, media_status, blacklist, reconciled, rejected, search_results, post_vars, disc_vars>>

\* lines 75-87: the PENDING row
RaceCreate(p) ==
  /\ procs[p].pc = "checked"
  /\ CanCreate
  /\ attempts' =
       [attempts EXCEPT ![next_id] = NewAttempt(procs[p].media, procs[p].release)]
  /\ next_id' = next_id + 1
  /\ procs' =
       [procs EXCEPT ![p].pc = "created",
                     ![p].attempt = next_id,
                     ![p].row = NewAttempt(procs[p].media, procs[p].release)]
  /\ UNCHANGED <<media_status, blacklist, reconciled, rejected, search_results, post_vars, disc_vars>>

\* lines 89-120: validation, resolution, submission; the row changes in
\* memory only
RaceSubmit(p, pr, sab) ==
  /\ procs[p].pc = "created"
  /\ LET sub == Submit(procs[p].release, pr, sab)
     IN procs' =
          [procs EXCEPT
             ![p] =
               IF sub.ok
               THEN [@ EXCEPT !.pc = "accepted", !.accepted = TRUE,
                              !.row = Accepted(@, sub.nzo_id)]
               ELSE [@ EXCEPT !.pc = "rejected", !.row = Rejected(@, sub.error)]]
  /\ UNCHANGED <<attempts, next_id, media_status, blacklist, reconciled, rejected, search_results, post_vars, disc_vars>>

\* line 121: attempt.save() writes the row; a refusal by the table is an
\* exception inside the try block
RaceSaveAttempt(p) ==
  /\ procs[p].pc = "accepted"
  /\ IF StoreAccepts(attempts, procs[p].attempt, procs[p].row)
     THEN /\ attempts' = [attempts EXCEPT ![procs[p].attempt] = procs[p].row]
          /\ procs' = [procs EXCEPT ![p].pc = "saved"]
     ELSE /\ attempts' = attempts
          /\ procs' =
               [procs EXCEPT ![p].pc = "rejected",
                             ![p].row = Rejected(@, "IntegrityError")]
  /\ UNCHANGED <<next_id, media_status, blacklist, reconciled, rejected, search_results, post_vars, disc_vars>>

\* lines 123-126: media.save(update_fields=["status"]); return attempt
RaceSaveMedia(p) ==
  /\ procs[p].pc = "saved"
  /\ media_status' =
       [media_status EXCEPT ![procs[p].media] = MediaOnAccepted(@)]
  /\ procs' = [procs EXCEPT ![p].pc = "returned"]
  /\ UNCHANGED <<attempts, next_id, blacklist, reconciled, rejected, search_results, post_vars, disc_vars>>

\* lines 127-132: the except branch saves the FAILED row and raises
RaceSaveRejected(p) ==
  /\ procs[p].pc = "rejected"
  /\ attempts' = [attempts EXCEPT ![procs[p].attempt] = procs[p].row]
  /\ procs' = [procs EXCEPT ![p].pc = "raised"]
  /\ UNCHANGED <<next_id, media_status, blacklist, reconciled, rejected, search_results, post_vars, disc_vars>>

NextRace ==
  \/ \E p \in Procs, m \in Media, r \in OfferedReleases, cfg \in BOOLEAN :
       RaceCheck(p, m, r, cfg)
  \/ \E p \in Procs : RaceCreate(p)
  \/ \E p \in Procs, e \in OfferedEnvs : RaceSubmit(p, e.pr, e.sab)
  \/ \E p \in Procs : RaceSaveAttempt(p)
  \/ \E p \in Procs : RaceSaveMedia(p)
  \/ \E p \in Procs : RaceSaveRejected(p)

SpecRace == InitFresh /\ [][NextRace]_vars

\* get_download_status statement by statement, next to whole
\* initiate_download and delete_download_attempt calls.

\* the branches of lines 214-258 that call attempt.save(), and the except
\* branch (260-263), which always does
Saves(row, js) ==
  \/ js = PollError
  \/ ~js.found /\ row.status \in {SENT, DOWNLOADING}
  \/ js.found /\ js.status = "Completed" /\ row.status # DOWNLOADED
  \/ js.found /\ js.status \in RunningStatuses /\ row.status # DOWNLOADING
  \/ js.found /\ js.status \in FailedStatuses /\ row.status # FAILED

\* the saving branches that go on to media.save(): Completed and running
SavesMedia(js) ==
  js # PollError /\ js.found /\ js.status \in {"Completed"} \cup RunningStatuses

\* lines 195-206: the row is loaded; a missing row raises, a row without
\* client or job id is returned as it is
PollLoad(p, a) ==
  /\ procs[p].pc = "idle"
  /\ procs' =
       [procs EXCEPT ![p] =
          IF ~Exists(attempts, a) THEN [@ EXCEPT !.pc = "raised", !.attempt = a]
          ELSE IF TooEarlyToPoll(attempts[a])
          THEN [@ EXCEPT !.pc = "returned", !.attempt = a, !.row = attempts[a]]
          ELSE [@ EXCEPT !.pc = "loaded", !.attempt = a, !.row = attempts[a],
                         !.media = attempts[a].media]]
  /\ UNCHANGED <<attempts, next_id, media_status, blacklist, reconciled, rejected,
                 search_results, post_vars, disc_vars>>

\* lines 208-212: get_job_status answers, or raises
PollAnswer(p, js) ==
  /\ procs[p].pc = "loaded"
  /\ procs' =
       [procs EXCEPT ![p].answer = js,
                     ![p].pc = IF Saves(procs[p].row, js) THEN "answered" ELSE "returned"]
  /\ UNCHANGED <<attempts, next_id, media_status, blacklist, reconciled, rejected,
                 search_results, post_vars, disc_vars>>

\* attempt.save() of the instance loaded before: Model.save() updates the
\* row with this primary key and inserts it when no such row is left
PollSaveAttempt(p) ==
  /\ procs[p].pc = "answered"
  /\ attempts' =
       [attempts EXCEPT ![procs[p].attempt] = Reconcile(procs[p].row, procs[p].answer)]
  /\ procs' =
       [procs EXCEPT ![p].pc = IF SavesMedia(procs[p].answer) THEN "row_saved"
                               ELSE "returned",
                     ![p].overtaken = ~Exists(attempts, procs[p].attempt)]
  /\ UNCHANGED <<next_id, media_status, blacklist, reconciled, rejected,
                 search_results, post_vars, disc_vars>>

\* lines 236-239 and 247-250: media.save(update_fields=["status"]); return
PollSaveMedia(p) ==
  /\ procs[p].pc = "row_saved"
  /\ media_status' =
       [media_status EXCEPT ![procs[p].media] =
          ReconcileMedia(procs[p].row, procs[p].answer, @)]
  /\ procs' = [procs EXCEPT ![p].pc = "returned"]
  /\ UNCHANGED <<attempts, next_id, blacklist, reconciled, rejected,
                 search_results, post_vars, disc_vars>>

NextPoll ==
  \/ \E m \in Media, r \in GrabbedReleases, e \in OfferedEnvs :
       InitiateDownload(m, r, e.cfg, e.pr, e.sab)
  \/ \E p \in Procs, a \in AttemptIds : PollLoad(p, a)
  \/ \E p \in Procs, js \in PolledAnswers : PollAnswer(p, js)
  \/ \E p \in Procs : PollSaveAttempt(p)
  \/ \E p \in Procs : PollSaveMedia(p)
  \/ \E a \in AttemptIds, e \in OfferedDeleteEnvs :
       DeleteDownloadAttempt(a, e.dj, e.rmRaw, e.rmPost)

SpecPoll == InitFresh /\ [][NextPoll]_vars

\* ======================================================== properties
\* the attempts of media m whose status is in statuses
AttemptsIn(m, statuses) ==
  {a \in AttemptIds :
     Exists(attempts, a) /\ attempts[a].media = m /\ attempts[a].status \in statuses}

HasActiveAttempt(m) == AttemptsIn(m, {SENT, DOWNLOADING}) # {}

Initiated(m, r, e) == initiate_download(Store, m, r, e.cfg, e.pr, e.sab)

\* the attempts get_download_status will poll: a row with a client
\* reference and a job id
Pollable ==
  {a \in AttemptIds :
     /\ Exists(attempts, a)
     /\ attempts[a].download_client
     /\ attempts[a].download_client_download_id # ""}

\* C1: initiate_download on a media item that has a SENT or DOWNLOADING
\* attempt raises, whatever the release and the clients' answers, and the
\* store it leaves is the store it found (no new row, no status changed).
C1_ActiveDownloadRejected ==
  \A m \in Media :
    HasActiveAttempt(m) =>
      \A r \in SearchResults, e \in InitiateEnvs :
        /\ Initiated(m, r, e).outcome = "raise"
        /\ Initiated(m, r, e).store = Store

\* a media item has a DOWNLOADING attempt, a configuration exists, a row
\* could still be created, and the call on the media item is rejected
C1_Witness ==
  \E m \in Media, r \in OfferedReleases, e \in OfferedEnvs :
    /\ AttemptsIn(m, {DOWNLOADING}) # {}
    /\ e.cfg
    /\ CanCreate
    /\ Submit(r, e.pr, e.sab).ok
    /\ Initiated(m, r, e).error = ActiveExistsMsg

\* C2: every media item has at most one attempt in SENT or DOWNLOADING.
C2_SingleActivePerMedia ==
  \A m \in Media : Cardinality(AttemptsIn(m, {SENT, DOWNLOADING})) <= 1

\* the call created an attempt and an exception followed
FailsAfterCreate(m, r, e) ==
  /\ ~HasActiveAttempt(m)
  /\ e.cfg
  /\ CanCreate
  /\ ~Submit(r, e.pr, e.sab).ok

\* C4: when initiate_download has created its attempt and validation,
\* resolution or submission raises, the call raises, the attempt is FAILED
\* with an error kind and the exception's text as detail, and the media
\* status is what it was.
C4_FailureRecorded ==
  \A m \in Media, r \in SearchResults, e \in InitiateEnvs :
    FailsAfterCreate(m, r, e) =>
      LET res == Initiated(m, r, e)
          row == res.store.attempts[next_id]
      IN /\ res.outcome = "raise"
         /\ row.status = FAILED
         /\ row.error_type # ""
         /\ row.error_reason # ""
         /\ row.error_reason = res.error
         /\ res.store.media_status = media_status

\* the download client refuses a valid release while the media is DOWNLOADED
C4_Witness ==
  \E m \in Media, r \in OfferedReleases, e \in OfferedEnvs :
    /\ FailsAfterCreate(m, r, e)
    /\ media_status[m] = DOWNLOADED
    /\ Initiated(m, r, e).error = ClientError
    /\ Initiated(m, r, e).store.attempts[next_id].status = FAILED

\* C5: when initiate_download returns, the attempt it returns is DOWNLOADING
\* and the media is DOWNLOADING, whatever the media status was.
C5_SuccessIsDownloading ==
  \A m \in Media, r \in SearchResults, e \in InitiateEnvs :
    (CanCreate /\ Initiated(m, r, e).outcome = "return") =>
      LET res == Initiated(m, r, e)
      IN /\ res.attempt = next_id
         /\ res.store.attempts[res.attempt].status = DOWNLOADING
         /\ res.store.attempts[res.attempt].media = m
         /\ res.store.media_status[m] = DOWNLOADING

\* a successful call on a media item that was DOWNLOADED
C5_Witness ==
  \E m \in Media, r \in OfferedReleases, e \in OfferedEnvs :
    /\ CanCreate
    /\ media_status[m] = DOWNLOADED
    /\ Initiated(m, r, e).outcome = "return"
    /\ Initiated(m, r, e).store.media_status[m] = DOWNLOADING

Deleted(a, e) == delete_download_attempt(Store, a, e.dj, e.rmRaw, e.rmPost)

\* a DOWNLOADED attempt whose media has no other attempt in DOWNLOADED,
\* DOWNLOADING or SENT
LoneDownloaded(a) ==
  /\ Exists(attempts, a)
  /\ attempts[a].status = DOWNLOADED
  /\ AttemptsIn(attempts[a].media, {DOWNLOADED, DOWNLOADING, SENT}) = {a}

\* C6: delete_download_attempt on such an attempt resets the media to
\* WANTED and reports "Media status reset to WANTED".
C6_DeleteDownloadedResetsMedia ==
  \A a \in AttemptIds, e \in DeleteEnvs :
    LoneDownloaded(a) =>
      /\ Deleted(a, e).store.media_status[attempts[a].media] = WANTED
      /\ ResetMsg \in Deleted(a, e).messages

Refreshed(a, js) == get_download_status(Store, a, js)

CompletedAnswers == {js \in JobStatuses : js.found /\ js.status = "Completed"}
RunningAnswers == {js \in JobStatuses : js.found /\ js.status \in {"Downloading", "Queued", "Paused"}}

\* C7: once get_download_status has moved an attempt to DOWNLOADED, a later
\* call that observes Completed changes neither the attempt status nor the
\* media status.
C7_CompletedIsIdempotent ==
  \A a \in reconciled, js \in CompletedAnswers :
    Exists(attempts, a) =>
      /\ Refreshed(a, js).store.attempts[a].status = attempts[a].status
      /\ Refreshed(a, js).store.media_status = media_status

\* C8: Completed observed for an attempt that is not DOWNLOADED: the attempt
\* becomes DOWNLOADED, takes the reported path when there is one (keeps its
\* own otherwise), loses its error fields, and the media becomes DOWNLOADED.
C8_CompletedReconciled ==
  \A a \in Pollable, js \in CompletedAnswers :
    attempts[a].status # DOWNLOADED =>
      LET res == Refreshed(a, js)
          row == res.store.attempts[a]
      IN /\ res.outcome = "return"
         /\ row.status = DOWNLOADED
         /\ row.raw_file_path =
              IF js.path # NoPath THEN js.path ELSE attempts[a].raw_file_path
         /\ row.error_type = ""
         /\ row.error_reason = ""
         /\ res.store.media_status[attempts[a].media] = DOWNLOADED

\* an attempt carrying an earlier poll error, not yet DOWNLOADED, whose job
\* is now reported Completed with a path
C8_Witness ==
  \E a \in Pollable :
    /\ attempts[a].status \in {SENT, DOWNLOADING}
    /\ attempts[a].error_type = "status_check_error"
    /\ media_status[attempts[a].media] # DOWNLOADED
    /\ Refreshed(a, [found |-> TRUE, status |-> "Completed", path |-> ReportedPath])
         .store.attempts[a].raw_file_path = ReportedPath

\* C9: Downloading, Queued or Paused observed: after the call the attempt is
\* DOWNLOADING and the media is DOWNLOADING.
C9_RunningReconciled ==
  \A a \in Pollable, js \in RunningAnswers :
    /\ Refreshed(a, js).store.attempts[a].status = DOWNLOADING
    /\ Refreshed(a, js).store.media_status[attempts[a].media] = DOWNLOADING

\* C10: the job is in neither queue nor history: a SENT or DOWNLOADING
\* attempt becomes FAILED with error kind "not_found", and for an attempt in
\* any other status the store is left as it was.
C10_MissingJob ==
  \A a \in Pollable :
    LET res == Refreshed(a, NoJob)
    IN IF attempts[a].status \in {SENT, DOWNLOADING}
       THEN /\ res.store.attempts[a].status = FAILED
            /\ res.store.attempts[a].error_type = "not_found"
       ELSE res.store = Store

\* both cases in one state: an attempt failed as not_found, and a DOWNLOADED
\* attempt whose job has gone from the client
C10_Witness ==
  /\ \E a \in Pollable :
       attempts[a].status = FAILED /\ attempts[a].error_type = "not_found"
  /\ \E a \in Pollable :
       attempts[a].status = DOWNLOADED /\ Refreshed(a, NoJob).store = Store

\* C3: two requests for the same media whose submissions the download
\* client both accepted (so each ran the existence check before the other
\* saved) both return, and their two attempts are both DOWNLOADING: the
\* table refuses neither.
C3_RaceLeavesTwoActive ==
  \A p \in Procs, q \in Procs :
    ( /\ p # q
      /\ procs[p].media = procs[q].media
      /\ procs[p].accepted /\ procs[q].accepted
      /\ procs[p].pc \in {"returned", "raised"}
      /\ procs[q].pc \in {"returned", "raised"} ) =>
        /\ procs[p].pc = "returned" /\ procs[q].pc = "returned"
        /\ procs[p].attempt # procs[q].attempt
        /\ attempts[procs[p].attempt].status = DOWNLOADING
        /\ attempts[procs[q].attempt].status = DOWNLOADING
        /\ AttemptsIn(procs[p].media, {DOWNLOADING})
             = {procs[p].attempt, procs[q].attempt}

\* both requests have returned and the media has two DOWNLOADING attempts
C3_Witness ==
  \E m \in Media :
    /\ \A p \in Procs : procs[p].pc = "returned" /\ procs[p].media = m
    /\ Cardinality(AttemptsIn(m, {DOWNLOADING})) = 2

FailedAnswers == {js \in JobStatuses : js.found /\ js.status \in {"Failed", "Deleted"}}

\* C11: Failed or Deleted observed for an attempt that is not FAILED: the
\* attempt becomes FAILED with error kind "download_failed".
C11_RemoteFailureRecorded ==
  \A a \in Pollable, js \in FailedAnswers :
    attempts[a].status # FAILED =>
      /\ Refreshed(a, js).outcome = "return"
      /\ Refreshed(a, js).store.attempts[a].status = FAILED
      /\ Refreshed(a, js).store.attempts[a].error_type = "download_failed"

\* an attempt that a poll answering Failed has failed, and a DOWNLOADED
\* attempt that a Deleted answer would fail
C11_Witness ==
  /\ \E a \in Pollable :
       /\ attempts[a].status = FAILED
       /\ attempts[a].error_type = "download_failed"
       /\ attempts[a].error_reason = "Failed"
  /\ \E a \in Pollable :
       /\ attempts[a].status = DOWNLOADED
       /\ Refreshed(a, [found |-> TRUE, status |-> "Deleted", path |-> NoPath])
            .store.attempts[a].status = FAILED

\* C12: when polling the download client raises, get_download_status
\* returns the attempt with the failure in its error fields; the attempt
\* status, the media status and every other row are as before.
C12_PollFailureSwallowed ==
  \A a \in Pollable :
    LET res == Refreshed(a, PollError)
    IN /\ res.outcome = "return"
       /\ res.attempt = a
       /\ res.store.attempts[a].error_type # ""
       /\ res.store.attempts[a].error_reason # ""
       /\ res.store.attempts[a].status = attempts[a].status
       /\ res.store.media_status = media_status
       /\ \A b \in AttemptIds \ {a} : res.store.attempts[b] = attempts[b]

\* a DOWNLOADING attempt carrying the record of a failed poll
C12_Witness ==
  \E a \in Pollable :
    /\ attempts[a].status = DOWNLOADING
    /\ attempts[a].error_type = "status_check_error"
    /\ media_status[attempts[a].media] = DOWNLOADING

\* C13: get_download_status on an attempt without a client reference or
\* without a job id asks the download client nothing and leaves every
\* field of the attempt and of the media as it was.
C13_TooEarlyIsNoOp ==
  \A a \in AttemptIds, js \in JobStatuses :
    ( /\ Exists(attempts, a)
      /\ (~attempts[a].download_client \/ attempts[a].download_client_download_id = "") )
    => /\ Refreshed(a, js).outcome = "return"
       /\ Refreshed(a, js).client_calls = 0
       /\ Refreshed(a, js).store = Store

\* both cases at once: a row whose client configuration is gone, and a row
\* that never got a job id
C13_Witness ==
  /\ \E a \in AttemptIds :
       /\ Exists(attempts, a)
       /\ ~attempts[a].download_client
       /\ attempts[a].download_client_download_id # ""
  /\ \E a \in AttemptIds :
       /\ Exists(attempts, a)
       /\ attempts[a].download_client
       /\ attempts[a].download_client_download_id = ""

\* the environment in which every cleanup step fails by exception
AllCleanupFails == [dj |-> "error", rmRaw |-> "error", rmPost |-> "error"]

\* C14: delete_download_attempt raises only for an attempt that does not
\* exist; for an existing one, however the job cancellation and the file
\* removals go, it returns, the row is gone, and every cleanup step that
\* failed has its warning among the messages.
C14_DeleteNeverFailsOnCleanup ==
  \A a \in AttemptIds, e \in DeleteEnvs :
    LET res == Deleted(a, e)
        row == attempts[a]
        cancels == /\ row.status \in {SENT, DOWNLOADING}
                   /\ row.download_client
                   /\ row.download_client_download_id # ""
    IN IF ~Exists(attempts, a)
       THEN res.outcome = "raise" /\ res.store = Store
       ELSE /\ res.outcome = "return"
            /\ ~Exists(res.store.attempts, a)
            /\ \A b \in AttemptIds \ {a} : res.store.attempts[b] = attempts[b]
            /\ (cancels /\ e.dj = "refused") =>
                 "Warning: Could not remove download from SABnzbd" \in res.messages
            /\ (cancels /\ e.dj = "error") =>
                 "Warning: Error removing download from SABnzbd" \in res.messages
            /\ (row.raw_file_path # NoPath /\ e.rmRaw = "error") =>
                 "Warning: Could not delete raw file" \in res.messages
            /\ (row.post_processed_file_path # NoPath /\ e.rmPost = "error") =>
                 "Warning: Could not delete post-processed file" \in res.messages

\* an attempt has been deleted, and of the one that is left (in flight, a
\* file on disk) the cancellation and the removal would both fail
C14_Witness ==
  /\ \E a \in AttemptIds : a < next_id /\ ~Exists(attempts, a)
  /\ \E b \in Pollable :
       /\ attempts[b].status = DOWNLOADING
       /\ attempts[b].raw_file_path # NoPath
       /\ Deleted(b, AllCleanupFails).outcome = "return"
       /\ Cardinality(Deleted(b, AllCleanupFails).messages) >= 2

\* C15: deleting a SENT or DOWNLOADING attempt resets the media to WANTED
\* exactly when no other attempt of the media is DOWNLOADED, DOWNLOADING or
\* SENT; when one is, the media status stays as it was.
C15_ActiveDeleteResetsUnlessSibling ==
  \A a \in AttemptIds, e \in DeleteEnvs :
    (Exists(attempts, a) /\ attempts[a].status \in {SENT, DOWNLOADING}) =>
      LET m == attempts[a].media
          siblings == AttemptsIn(m, {DOWNLOADED, DOWNLOADING, SENT}) \ {a}
          res == Deleted(a, e)
      IN IF siblings = {}
         THEN /\ res.store.media_status[m] = WANTED
              /\ ResetMsg \in res.messages
         ELSE /\ res.store.media_status[m] = media_status[m]
              /\ ResetMsg \notin res.messages

\* a DOWNLOADING attempt beside a DOWNLOADED one of the same media, the
\* media not WANTED: the delete keeps the media status
C15_Witness ==
  \E a \in AttemptIds, b \in AttemptIds :
    /\ a # b /\ Exists(attempts, a) /\ Exists(attempts, b)
    /\ attempts[a].media = attempts[b].media
    /\ attempts[a].status = DOWNLOADING
    /\ attempts[b].status = DOWNLOADED
    /\ media_status[attempts[a].media] = DOWNLOADING
    /\ Deleted(a, AllCleanupFails).store.media_status[attempts[a].media] = DOWNLOADING

\* the blacklist rows of one (media, indexer, indexer_id) tuple
EntriesFor(bl, key) ==
  {e \in bl : e.media = key.media /\ e.indexer = key.indexer
                /\ e.indexer_id = key.indexer_id}

\* C16: every tuple blacklisted so far has exactly one entry; and two more
\* mark_as_blacklisted calls, with any reasons, on attempts that share a
\* tuple leave exactly one entry for it, carrying the reason of the first
\* call that created it, and both attempts BLACKLISTED.
C16_BlacklistIdempotent ==
  /\ \A key \in rejected : Cardinality(EntriesFor(blacklist, key)) = 1
  /\ \A a \in AttemptIds, b \in AttemptIds, r1 \in BlacklistReason, r2 \in BlacklistReason :
       ( /\ Exists(attempts, a) /\ Exists(attempts, b)
         /\ attempts[a].media = attempts[b].media
         /\ attempts[a].indexer = attempts[b].indexer
         /\ attempts[a].indexer_id = attempts[b].indexer_id )
       => LET key == [media |-> attempts[a].media, indexer |-> attempts[a].indexer,
                      indexer_id |-> attempts[a].indexer_id]
              first == mark_as_blacklisted(Store, a, r1)
              second == mark_as_blacklisted(first.store, b, r2)
              kept == EntriesFor(second.store.blacklist, key)
          IN /\ first.outcome = "return" /\ second.outcome = "return"
             /\ Cardinality(kept) = 1
             /\ \A e \in kept :
                  e.reason = IF EntriesFor(blacklist, key) = {}
                             THEN r1
                             ELSE (CHOOSE old \in EntriesFor(blacklist, key) : TRUE).reason
             /\ second.store.attempts[a].status = BLACKLISTED
             /\ second.store.attempts[b].status = BLACKLISTED
             /\ \A other \in second.store.blacklist \ kept : other \in blacklist

\* two attempts of one media from the same indexer, both blacklisted by
\* calls of their own, one entry between them
C16_Witness ==
  \E a \in AttemptIds, b \in AttemptIds :
    /\ a # b /\ Exists(attempts, a) /\ Exists(attempts, b)
    /\ BlacklistKey(attempts[a]) = BlacklistKey(attempts[b])
    /\ attempts[a].status = BLACKLISTED /\ attempts[b].status = BLACKLISTED
    /\ BlacklistKey(attempts[a]) \in rejected
    /\ Cardinality(EntriesFor(blacklist, BlacklistKey(attempts[a]))) = 1
    /\ Cardinality(blacklist) = 1

Searched(m, answer) == search_for_media(Store, m, <<answer>>)

\* C17: no search for a media item returns a result from the (indexer,
\* indexer_id) of an attempt of that media that was blacklisted at any
\* earlier time, whatever the indexer answers.
C17_BlacklistedNeverReturned ==
  \A key \in rejected, answer \in Responses :
    LET out == Searched(key.media, answer)
    IN \A i \in DOMAIN out :
         ~(out[i].indexer = key.indexer /\ IntToStr(out[i].indexer_id) = key.indexer_id)

\* after a blacklisting, a search whose answer listed the blacklisted
\* release first has returned the rest
C17_Witness ==
  \E key \in rejected :
    /\ DuplicatedListing.results[1].indexer = key.indexer
    /\ IntToStr(DuplicatedListing.results[1].indexer_id) = key.indexer_id
    /\ search_results = Searched(key.media, DuplicatedListing)
    /\ Len(search_results) = 1

\* C18: after the attempt created from result r for media m is
\* blacklisted, a result for m with another guid (not blacklisted before)
\* is still returned by the search.
C18_OtherReleaseStillReturned ==
  \A m \in Media, r \in SearchResults, e \in InitiateEnvs, h \in Hits :
    LET grabbed == Initiated(m, r, e)
        marked == mark_as_blacklisted(grabbed.store, grabbed.attempt, "manual")
    IN ( /\ CanCreate
         /\ grabbed.outcome = "return"
         /\ h.guid # r.guid
         /\ ~is_blacklisted(blacklist, m, h) )
       => LET out == search_for_media(marked.store, m, <<Found(<<h>>)>>)
          IN \E i \in DOMAIN out : out[i] = h

\* position of the first result with guid g
FirstIndex(items, g) ==
  CHOOSE i \in DOMAIN items :
    items[i].result.guid = g /\ \A j \in 1..(i - 1) : items[j].result.guid # g

\* C19: deduplication keeps of every guid exactly the first occurrence in
\* query order and nothing else, in the order the kept results came in;
\* what a search has returned lists no guid twice.
C19_DedupKeepsFirst ==
  /\ \A i \in DOMAIN search_results, j \in DOMAIN search_results :
       i # j => search_results[i].guid # search_results[j].guid
  /\ \A m \in Media, answer \in Responses :
       LET all == AllResults(BuildSearchQueries(m), <<answer>>)
           kept == DeduplicateResults(all)
       IN /\ {kept[k].result.guid : k \in DOMAIN kept}
               = {all[i].result.guid : i \in DOMAIN all}
          /\ \A k \in DOMAIN kept : kept[k] = all[FirstIndex(all, kept[k].result.guid)]
          /\ \A k \in DOMAIN kept, l \in DOMAIN kept :
               k < l => FirstIndex(all, kept[k].result.guid)
                          < FirstIndex(all, kept[l].result.guid)

\* a search over the listing with a repeated guid, nothing blacklisted,
\* has returned two of its three results
C19_Witness ==
  \E m \in Media :
    /\ ~ \E e \in blacklist : e.media = m
    /\ search_results = Searched(m, DuplicatedListing)
    /\ Len(search_results) = 2
    /\ \A i \in DOMAIN search_results :
         search_results[i] # DuplicatedListing.results[3]

\* a result is not behind another in (priority, indexer lowercased, title
\* lowercased)
NotAfter(p1, r1, p2, r2) ==
  \/ p1 < p2
  \/ /\ p1 = p2
     /\ \/ StrLess(Lower(r1.indexer), Lower(r2.indexer))
        \/ /\ Lower(r1.indexer) = Lower(r2.indexer)
           /\ ~StrLess(Lower(r2.title), Lower(r1.title))

\* C20: in what search_for_media returns, no result is followed by one
\* that is smaller in (priority, indexer lowercased, title lowercased).
C20_SortedByKey ==
  \A m \in Media, answer \in Responses :
    LET tagged == DeduplicateResults(AllResults(BuildSearchQueries(m), <<answer>>))
        out == Searched(m, answer)
        PriorityOf(r) == tagged[FirstIndex(tagged, r.guid)].priority
    IN \A i \in 1..(Len(out) - 1) :
         NotAfter(PriorityOf(out[i]), out[i], PriorityOf(out[i + 1]), out[i + 1])

\* a search has returned nzbIndex ahead of TestIndexer: lower case decides
C20_Witness ==
  /\ Len(search_results) = 2
  /\ search_results[1].indexer = "nzbIndex"
  /\ search_results[2].indexer = "TestIndexer"

\* what is left of an answer after deduplication and the blacklist filter,
\* in sorted order
Survivors(m, answer) ==
  SortResults(
    FilterBlacklisted(blacklist, m,
      DeduplicateResults(AllResults(BuildSearchQueries(m), <<answer>>))))

\* C21: search_for_media returns at most 50 results; when more than 50
\* survive deduplication and the blacklist filter it returns the first 50 of
\* them in sorted order, and all of them otherwise.
C21_CappedAtFifty ==
  /\ Len(search_results) <= 50
  /\ \A m \in Media, answer \in LongListings :
       LET out == Searched(m, answer)
           survivors == Survivors(m, answer)
       IN /\ Len(out) <= 50
          /\ IF Len(survivors) > 50
             THEN out = SubSeq(survivors, 1, 50)
             ELSE out = survivors

\* a search over a listing of which more than 50 results survive has
\* returned 50, the survivor sorted last not among them
C21_Witness ==
  \E m \in Media, answer \in LongListings :
    /\ Len(Survivors(m, answer)) > 50
    /\ search_results = Searched(m, answer)
    /\ Len(search_results) = 50
    /\ \A i \in DOMAIN search_results :
         search_results[i] # Survivors(m, answer)[Len(Survivors(m, answer))]

\* query lists of one and two queries, and an answer to each query: an
\* exception, an empty list, or one result
QueryLists(m) ==
  UNION {[1..n -> [query : {Strip(TitleOf(m))}, priority : 0..1]] : n \in 1..2}
ShortResponses == {SearchFailed, Found(<<>>)} \cup {Found(<<h>>) : h \in Hits}

\* C22: the indexer client raising for a query does not end the search:
\* every result of every query that was answered is collected, tagged with
\* its query's priority, and a search whose queries all raise returns an
\* empty list.
C22_QueryFailureSwallowed ==
  /\ \A m \in Media : Searched(m, SearchFailed) = <<>>
  /\ \A m \in Media :
       \A queries \in QueryLists(m) :
         \A answers \in [DOMAIN queries -> ShortResponses] :
           LET all == AllResults(queries, answers)
           IN /\ \A i \in DOMAIN queries :
                   answers[i].ok =>
                     \A k \in DOMAIN answers[i].results :
                       \E j \in DOMAIN all :
                         /\ all[j].result = answers[i].results[k]
                         /\ all[j].priority = queries[i].priority
              /\ (\A i \in DOMAIN queries : ~answers[i].ok) => all = <<>>

\* a search had returned results, and the same search with the indexer
\* raising returns the empty list
C22_Witness ==
  \E m \in Media :
    /\ search_results # <<>>
    /\ search_results = Searched(m, DuplicatedListing)
    /\ Searched(m, SearchFailed) = <<>>
    /\ AllResults(<<[query |-> Strip(TitleOf(m)), priority |-> 0],
                    [query |-> Strip(TitleOf(m)), priority |-> 1]>>,
                  <<SearchFailed, DuplicatedListing>>) # <<>>

\* token tok occurs in query q
Mentions(q, tok) == \E i \in DOMAIN q : q[i] = tok

\* C23: for a media item with a title and an author the query list has at
\* least two queries, among them one naming title and author and one that
\* is the bare title, the former at the earlier priority rank; a search
\* therefore returns what the indexer answers to the second query too.
C23_TitleAndAuthorQueries ==
  \A m \in Media :
    (Strip(TitleOf(m)) # <<>> /\ AuthorsOf(m) # <<>>) =>
      LET queries == BuildSearchQueries(m)
      IN /\ Len(queries) >= 2
         /\ \E i \in DOMAIN queries, j \in DOMAIN queries :
              /\ \A k \in DOMAIN Strip(TitleOf(m)) :
                   Mentions(queries[i].query, Strip(TitleOf(m))[k])
              /\ Mentions(queries[i].query, AuthorsOf(m)[1])
              /\ queries[j].query = Strip(TitleOf(m))
              /\ queries[i].priority < queries[j].priority
         /\ \A h1 \in Hits, h2 \in Hits :
              ( /\ h1.guid # h2.guid
                /\ ~is_blacklisted(blacklist, m, h2) )
              => LET out == search_for_media(Store, m, <<Found(<<h1>>), Found(<<h2>>)>>)
                 IN \E k \in DOMAIN out : out[k] = h2

\* the call gets as far as creating its attempt
CreatesAttempt(m, e) == ~HasActiveAttempt(m) /\ e.cfg /\ CanCreate

\* what C24 says of the call for release r
UnsupportedProtocolRecorded(m, r, e) ==
  LET res == Initiated(m, r, e)
      row == res.store.attempts[next_id]
  IN /\ res.outcome = "raise"
     /\ res.error = UnsupportedProtocolMsg(r.protocol)
     /\ row.status = FAILED
     /\ row.error_reason = UnsupportedProtocolMsg(r.protocol)
     /\ res.client_calls = 0
     /\ res.prowlarr_calls = 0
     /\ res.store.media_status = media_status

\* C24 as stated: initiate_download with a result whose protocol is not
\* usenet raises the unsupported-protocol error naming the protocol, leaves
\* the attempt it created FAILED with that text as detail, and asks the
\* download client nothing.
C24_UnsupportedProtocolAnyUrl ==
  \A m \in Media, r \in SearchResults, e \in InitiateEnvs :
    (CreatesAttempt(m, e) /\ r.protocol # "usenet") =>
      UnsupportedProtocolRecorded(m, r, e)

\* C24, amended: the same for a result that has a download URL (not empty,
\* not blank); the check for a missing URL comes first.
C24_UnsupportedProtocol ==
  \A m \in Media, r \in SearchResults, e \in InitiateEnvs :
    ( /\ CreatesAttempt(m, e)
      /\ r.protocol # "usenet"
      /\ r.download_url # <<>> /\ Strip(r.download_url) # <<>> ) =>
      UnsupportedProtocolRecorded(m, r, e)

\* an attempt failed for its torrent release, its media still WANTED
C24_Witness ==
  \E a \in AttemptIds :
    /\ Exists(attempts, a)
    /\ attempts[a].status = FAILED
    /\ attempts[a].error_reason = UnsupportedProtocolMsg("torrent")
    /\ attempts[a].download_client_download_id = ""
    /\ media_status[attempts[a].media] = WANTED

\* ------------------------------------------------------------------ C27
\* the name has been handed to sanitize_filename and was over the limit
SanitizedLongName == sanitized # <<>> /\ Len(name) > DefaultMaxLength

\* nothing in the name for the sanitizer to drop: no whitespace, no dot at
\* either end
NothingToStrip(text) ==
  /\ \A i \in DOMAIN text : text[i] \notin Whitespace
  /\ text # <<>> => (text[1] # "." /\ text[Len(text)] # ".")

\* C27 as stated: sanitize_filename with the default limit returns exactly
\* 200 characters for every input longer than 200 characters.
C27_ExactlyMaxLength ==
  SanitizedLongName => Len(sanitized) = DefaultMaxLength

\* C27: for every input longer than 200 characters sanitize_filename with
\* the default limit returns at most 200 characters, and exactly 200 when
\* the input has no whitespace and no dot at either end.
C27_AtMostMaxLength ==
  SanitizedLongName =>
    /\ Len(sanitized) <= DefaultMaxLength
    /\ NothingToStrip(name) => Len(sanitized) = DefaultMaxLength

\* a long name with an invalid character and nothing to strip came out at
\* exactly the limit
C27_Witness ==
  /\ SanitizedLongName
  /\ NothingToStrip(name)
  /\ \E i \in DOMAIN name : name[i] \in InvalidChars
  /\ Len(sanitized) = DefaultMaxLength
  /\ \E i \in DOMAIN sanitized : sanitized[i] = "_"

\* ------------------------------------------------------------------ C25
\* organize_to_library_for_attempt on the current store
Staged(a, e) == organize_to_library_for_attempt(PostStore, a, e)

\* the book files of the library: what is below the library folder, the
\* .opf and .jpg sidecars aside
LibraryFiles(d) ==
  {f \in d.files :
     /\ Len(f) > Len(LibraryBase)
     /\ SubSeq(f, 1, Len(LibraryBase)) = LibraryBase
     /\ Suffix(BaseName(f)) \notin {".opf", ".jpg"}}

\* a second call on what the first one left, the configuration still there
OrganizedAgain(a, first, e) ==
  LET second == organize_to_library_for_attempt(first.store, a, e)
  IN /\ second.success
     /\ second.organized = first.organized
     /\ second.store.library_path = first.store.library_path
     /\ LibraryFiles(second.store.disk) = LibraryFiles(first.store.disk)

\* C25 as stated: organizing an attempt into the library and organizing it
\* again succeeds both times and yields the same library path, with no
\* additional library file, for a single-file and for a directory source.
C25_ReorganizeIdempotent ==
  \A a \in AttemptIds, e1 \in OrganizeEnvs, e2 \in OrganizeEnvs :
    LET first == Staged(a, e1)
    IN (Exists(attempts, a) /\ first.success /\ e2.cfg) => OrganizedAgain(a, first, e2)

\* ------------------------------------------------------------------ C26
\* C26: when generate_opf or download_cover fails in a call that organizes
\* the file, the call still returns success, the media's library path and the
\* attempt's post-processed path are the organized path, and after a cover
\* failure the media's cover path is what it was before the call.
C26_SidecarFailureTolerated ==
  \A a \in AttemptIds, e \in OrganizeEnvs :
    LET res == Staged(a, e)
        smooth == Staged(a, [e EXCEPT !.opf = TRUE, !.cover = TRUE])
    IN (Exists(attempts, a) /\ (~e.opf \/ ~e.cover) /\ smooth.success) =>
         /\ res.success
         /\ res.organized = smooth.organized
         /\ res.organized # NoPath
         /\ res.store.library_path[attempts[a].media] = res.organized
         /\ res.store.attempts[a].post_processed_file_path = res.organized
         /\ ~e.cover => res.store.cover_path[attempts[a].media]
                          = cover_path[attempts[a].media]

\* one attempt was organized while the cover download failed (no cover file
\* in the library, the old cover path kept) and another while the sidecar
\* could not be written (no .opf next to the book)
C26_Witness ==
  \E a \in AttemptIds, b \in AttemptIds :
    /\ Exists(attempts, a) /\ attempts[a].media = "book1"
    /\ library_path["book1"] # NoPath
    /\ attempts[a].post_processed_file_path = library_path["book1"]
    /\ library_path["book1"] \in disk.files
    /\ cover_path["book1"] = OldCover
    /\ \A f \in disk.files : f[1] = <<"library">> => Suffix(BaseName(f)) # ".jpg"
    /\ Exists(attempts, b) /\ attempts[b].media = "book2"
    /\ library_path["book2"] # NoPath
    /\ attempts[b].post_processed_file_path = library_path["book2"]
    /\ library_path["book2"] \in disk.files
    /\ Join(Parent(library_path["book2"]),
            WithSuffix(Stem(BaseName(library_path["book2"])), ".opf")) \notin disk.files

\* ------------------------------------------------------------------ C28
\* C28 as stated: on a successful initiate_download for a usenet result the
\* indexer client's get_download_url is called exactly once before the
\* submission, and the URL it returns is the URL submitted to the download
\* client.
C28_ResolvedThroughIndexer ==
  \A m \in Media, r \in SearchResults, e \in InitiateEnvs :
    LET res == Initiated(m, r, e)
    IN (CanCreate /\ r.protocol = "usenet" /\ res.outcome = "return") =>
         /\ res.client_calls = 1
         /\ res.prowlarr_calls = 1
         /\ res.url = e.pr

\* ------------------------------------------------------------------ C29
\* C29 as stated: both submission strategies are supported: for a media item
\* without an active attempt there is a call that submits directly and leaves
\* the attempt DOWNLOADING, and there is a configuration under which the call
\* submits through the indexer, without contacting the download client, and
\* leaves the attempt SENT with the job id the indexer returned.
C29_IndexerMediatedMode ==
  \A m \in Media :
    (CanCreate /\ ~HasActiveAttempt(m)) =>
      /\ \E r \in SearchResults, e \in InitiateEnvs :
           LET res == Initiated(m, r, e)
           IN /\ res.outcome = "return"
              /\ res.client_calls = 1
              /\ res.store.attempts[res.attempt].status = DOWNLOADING
      /\ \E r \in SearchResults, e \in InitiateEnvs :
           LET res == Initiated(m, r, e)
           IN /\ res.outcome = "return"
              /\ res.client_calls = 0
              /\ res.store.attempts[res.attempt].status = SENT
              /\ res.store.attempts[res.attempt].download_client_download_id # ""

\* ------------------------------------------------------------------ C30
TerminalStatuses == {DOWNLOADED, FAILED, BLACKLISTED}

\* C30 as stated: once an attempt is DOWNLOADED, FAILED or BLACKLISTED, no
\* operation (no get_download_status call in particular, whatever the
\* remote job reports) changes its status back to SENT or DOWNLOADING.
C30_TerminalIsFinal ==
  \A a \in AttemptIds :
    (Exists(attempts, a) /\ attempts[a].status \in TerminalStatuses) =>
      /\ \A js \in JobStatuses :
           Refreshed(a, js).store.attempts[a].status \notin ActiveStatuses
      /\ \A reason \in BlacklistReason :
           mark_as_blacklisted(Store, a, reason).store.attempts[a].status
             \notin ActiveStatuses
      /\ \A m \in Media, r \in SearchResults, e \in InitiateEnvs :
           Initiated(m, r, e).store.attempts[a].status \notin ActiveStatuses

\* ------------------------------------------------------------------ C31
\* C31: every attempt that initiate_download leaves in DOWNLOADING has a
\* non-empty download-client job id recorded (the id the client answered
\* with), and no attempt of the store is DOWNLOADING with an empty job id.
C31_DownloadingHasJobId ==
  /\ \A a \in AttemptIds :
       (Exists(attempts, a) /\ attempts[a].status = DOWNLOADING) =>
         attempts[a].download_client_download_id # ""
  /\ \A m \in Media, r \in SearchResults, e \in InitiateEnvs :
       LET res == Initiated(m, r, e)
       IN (CanCreate /\ res.outcome = "return") =>
            /\ res.store.attempts[res.attempt].status = DOWNLOADING
            /\ res.store.attempts[res.attempt].download_client_download_id = e.sab
            /\ e.sab \in NzoIds
            /\ get_download_status(res.store, res.attempt, NoJob)
                 .store.attempts[res.attempt].status = FAILED

\* an attempt left DOWNLOADING by initiate_download, job id on the row
C31_Witness ==
  \E a \in AttemptIds :
    /\ Exists(attempts, a)
    /\ attempts[a].status = DOWNLOADING
    /\ attempts[a].download_client_download_id \in NzoIds
    /\ attempts[a].error_type = ""

\* ------------------------------------------------------------------ C32
\* the files of the lookup whose name embeds the job id, and those whose
\* name contains the release title
EmbedsJobId(p) ==
  LET lower == Lower(p[Len(p)])
  IN /\ EndsWithAny(lower, EbookExtensions \cup DiscoveryAudioExtensions)
     /\ Contains(lower, Lower(lookup.download_client_id))

MatchesTitle(p) ==
  LET lower == Lower(p[Len(p)])
  IN /\ EndsWithAny(lower, EbookExtensions \cup DiscoveryAudioExtensions)
     /\ Contains(lower, Lower(lookup.release_title))

\* what a job-id match returns: the e-book file itself, the directory of an
\* audio file
JobIdMatches ==
  {IF EndsWithAny(Lower(p[Len(p)]), EbookExtensions) THEN p ELSE SubSeq(p, 1, Len(p) - 1) :
     p \in {q \in lookup.files : EmbedsJobId(q)}}

\* C32 as stated: when the downloads tree holds a file whose name embeds the
\* remote job id and, in another directory, a file whose name matches the
\* release title, find_downloaded_file returns the job-id match, in
\* whatever order the directories are walked.
C32_JobIdMatchPreferred ==
  (/\ lookup.root = "dir"
   /\ lookup.download_client_id # ""
   /\ \E p \in lookup.files, q \in lookup.files :
        /\ EmbedsJobId(p)
        /\ MatchesTitle(q)
        /\ SubSeq(p, 1, Len(p) - 1) # SubSeq(q, 1, Len(q) - 1)) =>
    \A dir_order \in WalkOrders(lookup.files), file_order \in Orderings(lookup.files) :
      find_downloaded_file(lookup, dir_order, file_order) \in JobIdMatches

\* ------------------------------------------------------------------ C33
\* C33: when organize_to_library_for_attempt fails with a hard error (no
\* file discovered, or the organizer fails) it returns success = false with
\* the error text and leaves the media's library path, the media's cover
\* path and the attempt's post-processed path as they were.
C33_HardErrorLeavesPaths ==
  \A a \in AttemptIds, e \in OrganizeEnvs :
    LET res == Staged(a, e)
    IN (Exists(attempts, a) /\ e.cfg /\ ~res.success) =>
         /\ res.error # ""
         /\ res.organized = NoPath
         /\ res.store.library_path = library_path
         /\ res.store.cover_path = cover_path
         /\ res.store.attempts[a].post_processed_file_path
              = attempts[a].post_processed_file_path

\* the organizer has failed for a folder without audio: its library folder
\* was made, nothing was copied, no path was recorded; for the other
\* attempt, which has no file on disk, discovery can fail
C33_Witness ==
  \E a \in AttemptIds, c \in AttemptIds :
    /\ Exists(attempts, a) /\ Exists(attempts, c)
    /\ attempts[a].raw_file_path = TextDir
    /\ attempts[a].post_processed_file_path = NoPath
    /\ library_path[attempts[a].media] = NoPath
    /\ get_library_path(LibraryBase, OrganizeAuthor(attempts[a].media),
                        TitleOf(attempts[a].media)).library_dir \in disk.dirs
    /\ \E e \in OrganizeEnvs :
         e.cfg /\ Staged(a, e).error = "No audio files found in source directory"
    /\ \E e \in OrganizeEnvs :
         e.cfg /\ e.found = NoPath /\ Staged(c, e).error = "FileDiscoveryError"

\* ------------------------------------------------------------------ C34
\* C34 as stated: in every state reached by non-interleaved
\* initiate_download, get_download_status, mark_as_blacklisted and
\* delete_download_attempt calls, a media item whose status is DOWNLOADING
\* has at least one attempt in SENT or DOWNLOADING.
C34_DownloadingMediaHasActiveAttempt ==
  \A m \in Media : media_status[m] = DOWNLOADING => HasActiveAttempt(m)

\* ------------------------------------------------------------------ C35
\* C35 as stated: after a get_download_status call whose poll succeeded and
\* reported Downloading, Queued, Paused or Completed, the attempt's error
\* kind is empty: an error recorded by an earlier failed poll does not
\* survive a later healthy poll.
C35_HealthyPollClearsError ==
  \A a \in Pollable, js \in RunningAnswers \cup CompletedAnswers :
    Refreshed(a, js).store.attempts[a].error_type = ""

\* ------------------------------------------------------------------ C36
\* C36 as stated: after delete_download_attempt the owning media's library
\* path never names a file that this delete removed.
C36_LibraryPathNotDeleted ==
  \A a \in AttemptIds, e \in DeleteEnvs :
    (Exists(attempts, a) /\ CanRemove(disk, attempts[a], e.rmRaw, e.rmPost)) =>
      library_path[attempts[a].media]
        \notin disk.files \ DiskAfterDelete(disk, attempts[a], e.rmRaw, e.rmPost).files

\* ------------------------------------------------------------------ C37
\* C37 as stated: when a blacklist entry exists for (media, result.indexer,
\* result.indexer_id), initiate_download of that result is rejected: the
\* call raises and leaves no new DOWNLOADING attempt for the release.
C37_BlacklistedNotInitiated ==
  \A m \in Media, r \in SearchResults, e \in InitiateEnvs :
    LET key == [media |-> m, indexer |-> r.indexer, indexer_id |-> IntToStr(r.indexer_id)]
        res == Initiated(m, r, e)
    IN (CanCreate /\ HasEntry(blacklist, key)) =>
         /\ res.outcome = "raise"
         /\ \A a \in AttemptIds :
              (/\ Exists(res.store.attempts, a)
               /\ res.store.attempts[a].status = DOWNLOADING
               /\ BlacklistKey(res.store.attempts[a]) = key) =>
                attempts[a] = res.store.attempts[a]

\* ------------------------------------------------------------------ C38
\* C38: whenever initiate_download has returned or raised, the attempt it
\* created (if any) is not PENDING: it is DOWNLOADING after a return and
\* FAILED after a raise; no attempt of the store is PENDING between calls.
C38_NeverLeftPending ==
  /\ \A a \in AttemptIds : Exists(attempts, a) => attempts[a].status # PENDING
  /\ \A m \in Media, r \in SearchResults, e \in InitiateEnvs :
       LET res == Initiated(m, r, e)
       IN CanCreate =>
            IF res.attempt = 0
            THEN res.outcome = "raise" /\ res.store.attempts = attempts
            ELSE /\ ~Exists(attempts, res.attempt)
                 /\ res.store.attempts[res.attempt].status =
                      IF res.outcome = "return" THEN DOWNLOADING ELSE FAILED

\* one call has raised after creating its attempt, a later one has returned
C38_Witness ==
  \E a \in AttemptIds, b \in AttemptIds :
    /\ a < b
    /\ Exists(attempts, a) /\ Exists(attempts, b)
    /\ attempts[a].status = FAILED /\ attempts[a].error_type = "sabnzbd_error"
    /\ attempts[a].download_client_download_id = ""
    /\ attempts[b].status = DOWNLOADING
    /\ attempts[b].media = attempts[a].media

\* ------------------------------------------------------------------ C39
\* C39 as stated: if delete_download_attempt removes an attempt while a
\* get_download_status call for the same attempt is in flight (it loaded
\* the attempt before the delete and saves it after), then after both calls
\* have finished the attempt row does not exist.
C39_DeleteIsFinal ==
  \A p \in Procs :
    (procs[p].pc = "returned" /\ procs[p].overtaken) =>
      ~Exists(attempts, procs[p].attempt)
====
